---- MODULE Spec2Model ----
(***************************************************************************)
(* State-machine model of formats/filesystem.py of LaytonEditor: the outer *)
(* ROM filesystem (NintendoDSRom), the nested PLZ archive (PlzArchive),    *)
(* the file handle (RomFile), the compressed view (CompressedIOWrapper)    *)
(* and the load/save orchestration (FileFormat).                           *)
(***************************************************************************)
EXTENDS Integers, Sequences, FiniteSets, TLC

VARIABLES
    files,              \* NintendoDSRom.files: the ordered slot list
    filenames,          \* NintendoDSRom.filenames: the folder tree
    archives,           \* the PlzArchive objects that were constructed
    handles,            \* the RomFile objects
    opened_files,       \* Archive.opened_files, the class attribute RomFile registers into
    _opened_files,      \* NintendoDSRom._opened_files, the list the cascades iterate
    _loaded_archives,   \* NintendoDSRom._loaded_archives: path -> PlzArchive
    _get_archive_call,  \* NintendoDSRom._get_archive_call
    host_files,         \* the files of the host, for a FileFormat used without a rom
    wrapper,            \* a CompressedIOWrapper the caller made over a RomFile
    reader,             \* a read_stream call in progress: its stream and cursor
    last                \* the call made last and how it ended

vars == <<files, filenames, archives, handles, opened_files, _opened_files,
          _loaded_archives, _get_archive_call, host_files, wrapper, reader, last>>

(***************************************************************************)
(* Bounds of the model.                                                    *)
(***************************************************************************)
MaxFiles == 3
MaxHandles == 2
MaxBuf == 2
MaxArchives == 2
MaxEntries == 2

(***************************************************************************)
(* Python values and list operations.                                      *)
(***************************************************************************)
None == -1

Falsy(x) == x = None \/ x = 0

Range(s) == {s[i] : i \in 1..Len(s)}

Contains(s, x) == \E i \in 1..Len(s) : s[i] = x

\* list.index(x) + 1: the first position holding x
IndexOf(s, x) == CHOOSE i \in 1..Len(s) : s[i] = x /\ \A j \in 1..(i - 1) : s[j] # x

\* del s[i - 1]
RemoveAt(s, i) == SubSeq(s, 1, i - 1) \o SubSeq(s, i + 1, Len(s))

\* list.remove(x): the first occurrence goes
ListRemove(s, x) == RemoveAt(s, IndexOf(s, x))

\* list.insert(i, x) with a 0-based i >= 0; an i past the end appends
InsertAt(s, i, x) ==
    LET k == IF i > Len(s) THEN Len(s) ELSE i
    IN  SubSeq(s, 1, k) \o <<x>> \o SubSeq(s, k + 1, Len(s))

Front(s) == SubSeq(s, 1, Len(s) - 1)

Last(s) == s[Len(s)]

\* a statement `x = e` followed by the statements F that use x: e is computed
\* once, as the assignment does
Bind(e, F(_)) == CHOOSE r \in {F(x) : x \in {e}} : TRUE

(***************************************************************************)
(* The folder tree.  A folder is a node of a fixed universe; a path is the *)
(* sequence of its components ("A/C/f" is <<"A", "C", "f">>).              *)
(***************************************************************************)
Root == "/"

Nodes == {"/", "A", "A/C", "B"}

\* Folder.folders of a node, as (name, Folder) pairs in list order
Children(n) ==
    CASE n = "/" -> <<"A", "B">>
      [] n = "A" -> <<"A/C">>
      [] OTHER -> <<>>

NodeName(n) ==
    CASE n = "A" -> "A"
      [] n = "A/C" -> "C"
      [] n = "B" -> "B"
      [] OTHER -> ""

NoFolder == "None"

NoNode == [present |-> FALSE, firstID |-> 0, files |-> <<>>]

RECURSIVE subfolder(_, _, _)
\* Folder.subfolder: walk the components down from node
subfolder(fn, node, comps) ==
    IF comps = <<>> THEN node
    ELSE LET cs == {c \in Range(Children(node)) :
                        fn[c].present /\ NodeName(c) = Head(comps)}
         IN  IF cs = {} THEN NoFolder
             ELSE subfolder(fn, CHOOSE c \in cs : TRUE, Tail(comps))

\* Folder.idOf: the ID of the file at path, None when it does not resolve
idOf(fn, path) ==
    IF path = <<>> THEN None
    ELSE LET fd == subfolder(fn, Root, Front(path))
         IN  IF fd = NoFolder THEN None
             ELSE IF Contains(fn[fd].files, Last(path))
                  THEN fn[fd].firstID + IndexOf(fn[fd].files, Last(path)) - 1
                  ELSE None

\* Folder.filenameOf: whether some folder owns the ID (None otherwise)
filenameOf(fn, id) ==
    LET own == {n \in Nodes : fn[n].present /\ fn[n].firstID <= id
                               /\ id < fn[n].firstID + Len(fn[n].files)}
    IN  IF own = {} THEN None ELSE 1

\* folder_get_parent: the node whose folder list holds n
ParentOf(n) == CHOOSE p \in Nodes : Contains(Children(p), n)

RECURSIVE PathOf(_)
PathOf(n) == IF n = Root THEN <<>> ELSE PathOf(ParentOf(n)) \o <<NodeName(n)>>

(***************************************************************************)
(* The program state as one record, so that a call made inside another     *)
(* call (open -> add_file -> close) composes.                              *)
(***************************************************************************)
State ==
    [files |-> files, filenames |-> filenames, archives |-> archives,
     handles |-> handles, opened_files |-> opened_files,
     _opened_files |-> _opened_files, _loaded_archives |-> _loaded_archives,
     _get_archive_call |-> _get_archive_call, host_files |-> host_files,
     wrapper |-> wrapper, reader |-> reader]

Becomes(g) ==
    /\ files' = g.files
    /\ filenames' = g.filenames
    /\ archives' = g.archives
    /\ handles' = g.handles
    /\ opened_files' = g.opened_files
    /\ _opened_files' = g._opened_files
    /\ _loaded_archives' = g._loaded_archives
    /\ _get_archive_call' = g._get_archive_call
    /\ host_files' = g.host_files
    /\ wrapper' = g.wrapper
    /\ reader' = g.reader

\* how a call ends: the state it leaves, "ok" or the exception, the value returned
R(g, status, ret) == [g |-> g, status |-> status, ret |-> ret]

Rom == 0

\* archive.files of a handle's archive: the ROM's slots or a PlzArchive's entries
FsFiles(g, fs) == IF fs = Rom THEN g.files ELSE g.archives[fs].files

SetFsFile(g, fs, id, data) ==
    IF fs = Rom THEN [g EXCEPT !.files[id + 1] = data]
    ELSE [g EXCEPT !.archives[fs].files[id + 1] = data]

(***************************************************************************)
(* RomFile                                                                 *)
(***************************************************************************)
HandleIds == 1..MaxHandles

FreeHandle == [st |-> "free", fs |-> Rom, id |-> 0, opp |-> "r", buf |-> <<>>, pos |-> 0]

FreeIds(g) == {h \in HandleIds : g.handles[h].st = "free"}

NewHandle(g) == CHOOSE h \in FreeIds(g) : \A k \in FreeIds(g) : h <= k

\* RomFile.__init__: register first, then load the buffer from the slot
RomFile_init(g, fs, index, operation) ==
    LET h == NewHandle(g)
        reg == IF Contains(g.opened_files, h) THEN g.opened_files
               ELSE Append(g.opened_files, h)
        g1 == [g EXCEPT !.opened_files = reg,
                        !.handles[h] = [st |-> "open", fs |-> fs, id |-> index,
                                        opp |-> operation, buf |-> <<>>, pos |-> 0]]
    IN  IF operation \notin {"r", "w", "a"} THEN R(g, "NotImplementedError", None)
        ELSE IF operation = "w" THEN R(g1, "ok", h)
        ELSE IF index < 0 \/ index >= Len(FsFiles(g, fs)) THEN R(g1, "IndexError", None)
        ELSE LET data == FsFiles(g, fs)[index + 1]
             IN  R([g1 EXCEPT !.handles[h].buf = data,
                              !.handles[h].pos = IF operation = "a" THEN Len(data) ELSE 0],
                   "ok", h)

\* a flush that writes back whatever the mode is
writes_back_always(f) == f.st = "open"

\* RomFile.flush writes the buffer back: not closed, and the mode is not read
writes_back(f) == f.st = "open" /\ f.opp # "r"

\* RomFile.flush: write the buffer into the slot unless closed or read mode
RomFile_flush(g, h) ==
    LET f == g.handles[h]
    IN  IF ~writes_back(f) THEN R(g, "ok", None)
        ELSE IF f.id < 0 \/ f.id >= Len(FsFiles(g, f.fs)) THEN R(g, "IndexError", None)
        ELSE R(SetFsFile(g, f.fs, f.id, f.buf), "ok", None)

\* RomFile.close: flush, close the buffer, deregister
RomFile_close(g, h) ==
    LET fl == RomFile_flush(g, h)
    IN  IF fl.status # "ok" THEN fl
        ELSE R([fl.g EXCEPT !.handles[h].st = "closed",
                            !.handles[h].buf = <<>>,
                            !.handles[h].pos = 0,
                            !.opened_files = IF Contains(@, h) THEN ListRemove(@, h) ELSE @],
               "ok", None)

\* BytesIO.write of one byte at the cursor
RomFile_write(f, b) ==
    [f EXCEPT !.buf = IF f.pos < Len(f.buf) THEN [f.buf EXCEPT ![f.pos + 1] = b]
                      ELSE Append(f.buf, b),
              !.pos = f.pos + 1]

(***************************************************************************)
(* NintendoDSRom: add_file, remove_file and their cascades                 *)
(***************************************************************************)
\* add_file's test on a folder: at or after the new ID, and not the target folder
NeedsIncrementSkipsEqual(firstID, new_id, root, folder_add) ==
    firstID > new_id /\ root # folder_add

NeedsIncrement(firstID, new_id, root, folder_add) ==
    firstID >= new_id /\ root # folder_add

\* remove_file's test on a folder: after the removed ID
NeedsDecrementTakesEqual(firstID, removed_id) == firstID >= removed_id

NeedsDecrement(firstID, removed_id) == firstID > removed_id

RECURSIVE increment_first_index_if_needed(_, _, _, _)
RECURSIVE increment_in_folders(_, _, _, _, _)
\* the nested function of add_file: the node, then each entry of its folder list
increment_first_index_if_needed(new_id, root, folder_add, fn) ==
    LET fn1 == IF NeedsIncrement(fn[root].firstID, new_id, root, folder_add)
               THEN [fn EXCEPT ![root].firstID = @ + 1]
               ELSE fn
    IN  increment_in_folders(new_id, Children(root), 1, folder_add, fn1)

increment_in_folders(new_id, kids, k, folder_add, fn) ==
    IF k > Len(kids) THEN fn
    ELSE increment_in_folders(new_id, kids, k + 1, folder_add,
            IF fn[kids[k]].present
            THEN increment_first_index_if_needed(new_id, kids[k], folder_add, fn)
            ELSE fn)

RECURSIVE decrement_first_index_if_needed(_, _, _)
RECURSIVE decrement_in_folders(_, _, _, _)
\* the nested function of remove_file
decrement_first_index_if_needed(removed_id, root, fn) ==
    LET fn1 == IF NeedsDecrement(fn[root].firstID, removed_id)
               THEN [fn EXCEPT ![root].firstID = @ - 1]
               ELSE fn
    IN  decrement_in_folders(removed_id, Children(root), 1, fn1)

decrement_in_folders(removed_id, kids, k, fn) ==
    IF k > Len(kids) THEN fn
    ELSE decrement_in_folders(removed_id, kids, k + 1,
            IF fn[kids[k]].present
            THEN decrement_first_index_if_needed(removed_id, kids[k], fn)
            ELSE fn)

\* a cascade that walks the registry the RomFile objects are in
handles_registered(g) == g.opened_files

\* `for fp in self._opened_files`: the list the cascades of add_file and
\* remove_file walk
handles_walked(g) == g._opened_files

RECURSIVE shift_opened_on_add(_, _, _, _)
\* add_file's loop over self._opened_files
shift_opened_on_add(g, list, k, new_file_id) ==
    IF k > Len(list) THEN R(g, "ok", None)
    ELSE LET fp == list[k]
             g1 == IF g.handles[fp].id > new_file_id
                   THEN [g EXCEPT !.handles[fp].id = @ + 1]
                   ELSE g
         IN  IF g1.handles[fp].id = new_file_id
             THEN LET c == RomFile_close(g1, fp)
                  IN  IF c.status # "ok" THEN c
                      ELSE shift_opened_on_add(c.g, list, k + 1, new_file_id)
             ELSE shift_opened_on_add(g1, list, k + 1, new_file_id)

RECURSIVE shift_opened_on_remove(_, _, _, _)
\* remove_file's loop over self._opened_files
shift_opened_on_remove(g, list, k, fileid) ==
    IF k > Len(list) THEN R(g, "ok", None)
    ELSE LET fp == list[k]
             g1 == IF g.handles[fp].id > fileid
                   THEN [g EXCEPT !.handles[fp].id = @ - 1]
                   ELSE g
         IN  IF g1.handles[fp].id = fileid
             THEN LET c == RomFile_close(g1, fp)
                  IN  IF c.status # "ok" THEN c
                      ELSE shift_opened_on_remove(c.g, list, k + 1, fileid)
             ELSE shift_opened_on_remove(g1, list, k + 1, fileid)

\* new_file_id of add_file
NewFileIdIgnoresCount(folder) == folder.firstID

NewFileId(folder) == folder.firstID + Len(folder.files)

\* NintendoDSRom.add_file
add_file(g, file) ==
    LET folder_add == subfolder(g.filenames, Root, Front(file))
    IN  IF folder_add = NoFolder THEN R(g, "KeyError", None)
        ELSE LET new_file_id == NewFileId(g.filenames[folder_add])
                 fn1 == [g.filenames EXCEPT ![folder_add].files = Append(@, Last(file))]
                 g1 == [g EXCEPT !.files = InsertAt(@, new_file_id, <<>>),
                                 !.filenames = increment_first_index_if_needed(
                                                   new_file_id, Root, folder_add, fn1)]
                 c == shift_opened_on_add(g1, handles_walked(g1), 1, new_file_id)
             IN  IF c.status # "ok" THEN c ELSE R(c.g, "ok", new_file_id)

\* NintendoDSRom.remove_file
remove_file(g, file) ==
    LET folder == subfolder(g.filenames, Root, Front(file))
        fileid == idOf(g.filenames, file)
    IN  IF folder = NoFolder THEN R(g, "KeyError", None)
        ELSE IF ~Contains(g.filenames[folder].files, Last(file))
        THEN R(g, "ValueError", None)
        ELSE LET fn1 == [g.filenames EXCEPT ![folder].files = ListRemove(@, Last(file))]
             IN  IF fileid >= Len(g.files)
                 THEN R([g EXCEPT !.filenames = fn1], "IndexError", None)
                 ELSE LET g1 == [g EXCEPT
                                   !.files = RemoveAt(@, fileid + 1),
                                   !.filenames = decrement_first_index_if_needed(
                                                     fileid, Root, fn1)]
                          c == shift_opened_on_remove(g1, handles_walked(g1), 1, fileid)
                      IN  IF c.status # "ok" THEN c ELSE R(c.g, "ok", fileid)

\* a rename that takes the old name out and puts the new one at the end
renamed_at_end(names, index, new_filename) == Append(RemoveAt(names, index), new_filename)

\* folder.files[index] = new_filename (index counted from 1 here)
renamed(names, index, new_filename) == [names EXCEPT ![index] = new_filename]

\* NintendoDSRom.rename_file
rename_file(g, path, new_filename) ==
    LET folder == subfolder(g.filenames, Root, Front(path))
    IN  IF folder = NoFolder THEN R(g, "KeyError", None)
        ELSE IF ~Contains(g.filenames[folder].files, Last(path))
        THEN R(g, "ValueError", None)
        ELSE R([g EXCEPT !.filenames[folder].files =
                    renamed(@, IndexOf(@, Last(path)), new_filename)],
               "ok", None)

\* a new folder that starts at the first slot
first_slot(g) == 0

\* Folder(firstID=len(self.files))
past_last_slot(g) == Len(g.files)

\* NintendoDSRom.add_folder, for a node whose parent is in the tree
add_folder(g, n) ==
    R([g EXCEPT !.filenames[n] =
            [present |-> TRUE, firstID |-> past_last_slot(g), files |-> <<>>]], "ok", None)

\* a test that looks at the files of the folder only
has_files(g, n) == g.filenames[n].files # <<>>

\* folder.files or folder.folders
not_empty(g, n) ==
    \/ g.filenames[n].files # <<>>
    \/ \E c \in Range(Children(n)) : g.filenames[c].present

\* NintendoDSRom.remove_folder
remove_folder(g, n) ==
    IF ~g.filenames[n].present THEN R(g, "KeyError", None)
    ELSE IF not_empty(g, n)
    THEN R(g, "Exception", None)
    ELSE R([g EXCEPT !.filenames[n] = NoNode], "ok", None)

(***************************************************************************)
(* open: the mode pattern and NintendoDSRom.open                           *)
(***************************************************************************)
NoMatch == <<>>

\* re.findall(r"^([rwa])(b?)(\+?)$", mode): the three groups, or no match.
\* `$` matches at the end and also just before one final newline.
match(mode) ==
    LET m == IF Len(mode) > 0 /\ mode[Len(mode)] = "\n" THEN Front(mode) ELSE mode
        n == Len(m)
    IN  IF /\ n >= 1
           /\ m[1] \in {"r", "w", "a"}
           /\ \/ n = 1
              \/ n = 2 /\ m[2] \in {"b", "+"}
              \/ n = 3 /\ m[2] = "b" /\ m[3] = "+"
        THEN <<m[1],
               IF n >= 2 /\ m[2] = "b" THEN "b" ELSE "",
               IF m[n] = "+" THEN "+" ELSE "">>
        ELSE NoMatch

\* a flag that is set whatever the mode says
create_always(m) == TRUE

\* the create flag of open: the third group of the mode pattern is "+"
create_flag(m) == m[3] = "+"

\* a path argument or an integer ID argument of open
ByPath(p) == [int |-> FALSE, v |-> p]

ById(i) == [int |-> TRUE, v |-> i]

\* NintendoDSRom.open; the text adapter wraps the same RomFile and is not kept
rom_open(g, file, mode) ==
    LET m == match(mode)
    IN  IF m = NoMatch THEN R(g, "ValueError", None)
        ELSE LET create == create_flag(m)
             IN  IF file.int
                 THEN IF filenameOf(g.filenames, file.v) = None
                      THEN R(g, "AttributeError", None)
                      ELSE RomFile_init(g, Rom, file.v, m[1])
                 ELSE LET fileid == idOf(g.filenames, file.v)
                      IN  IF Falsy(fileid) /\ create
                          THEN Bind(add_file(g, file.v), LAMBDA a :
                                   IF a.status # "ok" THEN a
                                   ELSE IF Falsy(a.ret)
                                   THEN R(a.g, "FileNotFoundError", None)
                                   ELSE RomFile_init(a.g, Rom, a.ret, m[1]))
                          ELSE IF Falsy(fileid) THEN R(g, "FileNotFoundError", None)
                          ELSE RomFile_init(g, Rom, fileid, m[1])

(***************************************************************************)
(* Byte streams: BinaryReader / BinaryWriter (formats.binary) and the      *)
(* compression container (formats.compression).                            *)
(***************************************************************************)
\* write_uint32: four bytes, little endian
U32(n) == <<n % 256, (n \div 256) % 256, (n \div 65536) % 256, (n \div 16777216) % 256>>

\* read_uint32 at cursor c (0-based); the caller checks c + 4 <= Len(b)
ReadU32(b, c) == b[c + 1] + 256 * b[c + 2] + 65536 * b[c + 3] + 16777216 * b[c + 4]

Zeros(n) == [i \in 1..n |-> 0]

\* b"PCK2"
Magic == <<80, 67, 75, 50>>

\* the type tag of the compression container
TagByte == 16

\* compress(data, double_typed): the tag, the tag again when double typed, the payload
compress(data, double_typed) ==
    <<TagByte>> \o (IF double_typed THEN <<TagByte>> ELSE <<>>) \o data

\* decompress(data, double_typed) -> (plaintext, double_typed), or a corrupt-format error
decompress(data, double_typed) ==
    IF data = <<>> THEN [status |-> "ok", data |-> <<>>, double_typed |-> double_typed]
    ELSE IF data[1] # TagByte
    THEN [status |-> "CorruptFormatError", data |-> <<>>, double_typed |-> double_typed]
    ELSE IF ~double_typed
    THEN [status |-> "ok", data |-> Tail(data), double_typed |-> FALSE]
    ELSE IF Len(data) >= 2 /\ data[2] = TagByte
    THEN [status |-> "ok", data |-> Tail(Tail(data)), double_typed |-> TRUE]
    ELSE [status |-> "CorruptFormatError", data |-> <<>>, double_typed |-> double_typed]

(***************************************************************************)
(* PlzArchive: the container codec                                         *)
(***************************************************************************)
\* str.encode / bytes.decode over the characters the model uses
CodeOf(ch) == CASE ch = "x" -> 120 [] ch = "y" -> 121 [] OTHER -> 63

CharOf(code) == CASE code = 120 -> "x" [] code = 121 -> "y" [] OTHER -> "?"

encode(name) == [i \in 1..Len(name) |-> CodeOf(name[i])]

decode(bytes) == [i \in 1..Len(bytes) |-> CharOf(bytes[i])]

\* the two size computations of write_stream: n += 4 - n % 4
PadUp(n) == n + (4 - (n % 4))

\* one record of write_stream
WriteRecord(name, data) ==
    LET header_size == PadUp(16 + Len(name) + 1)
        total_size == PadUp(header_size + Len(data))
    IN  U32(header_size) \o U32(total_size) \o U32(0) \o U32(Len(data))
        \o encode(name) \o Zeros(header_size - 16 - Len(name))
        \o data \o Zeros(total_size - header_size - Len(data))

RECURSIVE WriteRecords(_, _, _)
WriteRecords(names, datas, i) ==
    IF i > Len(datas) THEN <<>>
    ELSE WriteRecord(names[i], datas[i]) \o WriteRecords(names, datas, i + 1)

\* PlzArchive.write_stream: header, records, then total size patched at offset 4
write_stream(names, datas) ==
    LET body == WriteRecords(names, datas, 1)
    IN  U32(16) \o U32(16 + Len(body)) \o Magic \o U32(0) \o body

\* read_string: the bytes from c up to the terminating NUL (or the end)
RECURSIVE ReadString(_, _)
ReadString(b, c) ==
    IF c >= Len(b) \/ b[c + 1] = 0 THEN <<>>
    ELSE <<b[c + 1]>> \o ReadString(b, c + 1)

\* rdr.read(n) at cursor c: short at the end of the buffer
ReadBytes(b, c, n) ==
    IF c >= Len(b) THEN <<>>
    ELSE SubSeq(b, c + 1, IF c + n > Len(b) THEN Len(b) ELSE c + n)

\* a reader that takes the payload where the name ended
payload_after_name(start_pos, file_header_size, after_name) == after_name

\* rdr.seek(start_pos + file_header_size): where the payload is read from
payload_start(start_pos, file_header_size, after_name) == start_pos + file_header_size

RECURSIVE ReadRecords(_, _, _, _, _)
\* the while loop of read_stream
ReadRecords(b, c, archive_file_size, names, datas) ==
    IF ~(c < archive_file_size)
    THEN [status |-> "ok", filenames |-> names, files |-> datas]
    ELSE IF c + 16 > Len(b)
    THEN [status |-> "struct.error", filenames |-> names, files |-> datas]
    ELSE LET start_pos == c
             file_header_size == ReadU32(b, c)
             file_total_size == ReadU32(b, c + 4)
             file_size == ReadU32(b, c + 12)
             raw == ReadString(b, c + 16)
             filename == decode(raw)
             file == ReadBytes(b, payload_start(start_pos, file_header_size,
                                                c + 16 + Len(raw) + 1), file_size)
         IN  IF file_total_size = 0
             THEN [status |-> "diverges", filenames |-> names, files |-> datas]
             ELSE Bind(<<start_pos + file_total_size,
                         Append(names, filename), Append(datas, file)>>,
                       LAMBDA n : ReadRecords(b, n[1], archive_file_size, n[2], n[3]))

\* PlzArchive.read_stream
read_stream(b) ==
    IF Len(b) < 8 THEN [status |-> "struct.error", filenames |-> <<>>, files |-> <<>>]
    ELSE IF ReadBytes(b, 8, 4) # Magic
    THEN [status |-> "AssertionError", filenames |-> <<>>, files |-> <<>>]
    ELSE ReadRecords(b, ReadU32(b, 0), ReadU32(b, 4), <<>>, <<>>)

(***************************************************************************)
(* PlzArchive: the filesystem operations of an archive object a            *)
(***************************************************************************)
ArchiveIds == 1..MaxArchives

NoArchive == [live |-> FALSE, filenames |-> <<>>, files |-> <<>>,
              _last_filename |-> <<>>, _last_rom |-> None, _last_compressed |-> 0]

\* PlzArchive.add_file
plz_add_file(g, a, filename) ==
    LET new_file_id == Len(g.archives[a].files)
    IN  R([g EXCEPT !.archives[a].files = Append(@, <<>>),
                    !.archives[a].filenames = Append(@, filename)],
          "ok", new_file_id)

\* PlzArchive.remove_file
plz_remove_file(g, a, filename) ==
    IF ~Contains(g.archives[a].filenames, filename) THEN R(g, "ok", None)
    ELSE LET index == IndexOf(g.archives[a].filenames, filename)
         IN  R([g EXCEPT !.archives[a].files = RemoveAt(@, index),
                         !.archives[a].filenames = RemoveAt(@, index)],
               "ok", None)

\* PlzArchive.rename_file
plz_rename_file(g, a, old_filename, new_filename) ==
    IF ~Contains(g.archives[a].filenames, old_filename) THEN R(g, "ok", None)
    ELSE R([g EXCEPT !.archives[a].filenames =
                renamed(@, IndexOf(@, old_filename), new_filename)],
           "ok", None)

\* PlzArchive.open
plz_open(g, a, file, mode) ==
    LET m == match(mode)
    IN  IF m = NoMatch THEN R(g, "ValueError", None)
        ELSE LET create == create_flag(m)
             IN  IF file.int THEN RomFile_init(g, a, file.v, m[1])
                 ELSE LET fileid == IF Contains(g.archives[a].filenames, file.v)
                                    THEN IndexOf(g.archives[a].filenames, file.v) - 1
                                    ELSE None
                      IN  IF fileid = None /\ create
                          THEN Bind(plz_add_file(g, a, file.v), LAMBDA n :
                                   IF Falsy(n.ret)
                                   THEN R(n.g, "FileNotFoundError", None)
                                   ELSE RomFile_init(n.g, a, n.ret, m[1]))
                          ELSE IF fileid = None THEN R(g, "FileNotFoundError", None)
                          ELSE RomFile_init(g, a, fileid, m[1])

(***************************************************************************)
(* CompressedIOWrapper and FileFormat, as PlzArchive uses them through     *)
(* NintendoDSRom.get_archive and NintendoDSRom.save                        *)
(***************************************************************************)
\* the object is unreachable: its storage, and its handle number, are released
Release(g, h) == [g EXCEPT !.handles[h] = FreeHandle]

\* a write-back without the truncate: the bytes past the new content stay
written_over(old, out) == out \o SubSeq(old, Len(out) + 1, Len(old))

\* self._stream.truncate(0); self._stream.seek(0); self._stream.write(out)
written_back(old, out) == out

\* CompressedIOWrapper.flush over the RomFile h, the view holding `current`
wrapper_flush(g, h, current, double_typed) ==
    IF g.handles[h].opp \in {"w", "a"}
    THEN IF g.handles[h].st # "open" THEN R(g, "ValueError", None)
         ELSE Bind(written_back(g.handles[h].buf, compress(current, double_typed)),
                   LAMBDA out :
                       Bind([g EXCEPT !.handles[h].buf = out, !.handles[h].pos = Len(out)],
                            LAMBDA g1 : RomFile_flush(g1, h)))
    ELSE RomFile_flush(g, h)

\* CompressedIOWrapper.close: flush, then close the underlying stream
wrapper_close(g, h, current, double_typed) ==
    Bind(wrapper_flush(g, h, current, double_typed), LAMBDA fl :
        IF fl.status # "ok" THEN fl ELSE RomFile_close(fl.g, h))

\* no read_stream call in progress
NoReader == [st |-> "none", a |-> 1, b |-> <<>>, c |-> 0, archive_file_size |-> 0]

\* no CompressedIOWrapper made by the caller
NoWrapper == [st |-> "none", stream |-> 1, buf |-> <<>>, pos |-> 0, double_typed |-> FALSE]

\* CompressedIOWrapper(stream, double_typed): the rest of the stream is read
\* and decompressed into the view's own buffer
wrapper_init(g, stream, double_typed) ==
    LET f == g.handles[stream]
        g1 == [g EXCEPT !.handles[stream].pos = Len(f.buf)]
    IN  IF f.st # "open" THEN R(g, "ValueError", None)
        ELSE Bind(decompress(SubSeq(f.buf, f.pos + 1, Len(f.buf)), double_typed),
                  LAMBDA d :
                      IF d.status # "ok" THEN R(g1, d.status, None)
                      ELSE R([g1 EXCEPT !.wrapper =
                                 [st |-> "open", stream |-> stream, buf |-> d.data,
                                  pos |-> 0, double_typed |-> d.double_typed]],
                             "ok", None))

\* what FileFormat.__init__ does once the stream h is open and d is its
\* decompressed content: read_stream, then close the stream
plz_read(g, a, filename, fin, h, d) ==
    Bind(read_stream(d.data), LAMBDA rd :
        LET bad == IF d.status # "ok" THEN d.status ELSE rd.status
        IN  IF bad # "ok"
            THEN IF fin THEN R(Release(RomFile_close(g, h).g, h), bad, None)
                 ELSE R(g, bad, None)
            ELSE Bind([g EXCEPT !.archives[a] =
                          [live |-> TRUE, filenames |-> rd.filenames,
                           files |-> rd.files, _last_filename |-> filename,
                           _last_rom |-> Rom, _last_compressed |-> 1]],
                      LAMBDA g2 :
                          Bind(wrapper_close(g2, h, d.data, d.double_typed),
                               LAMBDA c : R(Release(c.g, h), c.status, a))))

\* FileFormat.__init__(filename, rom=rom) of the PlzArchive a (compressed default 1).
\* fin: whether the stream left open by a failed load has been finalised yet.
plz_load(g, a, filename, fin) ==
    Bind(rom_open(g, ByPath(filename), <<"r", "b">>), LAMBDA o :
        IF o.status # "ok" THEN o
        ELSE Bind(decompress(o.g.handles[o.ret].buf, FALSE), LAMBDA d :
                 Bind([o.g EXCEPT !.handles[o.ret].pos = Len(o.g.handles[o.ret].buf)],
                      LAMBDA g1 : plz_read(g1, a, filename, fin, o.ret, d))))

\* `if compressed is None: compressed = self._last_compressed`
effective_compression(g, a, compressed) ==
    IF compressed = None THEN g.archives[a]._last_compressed ELSE compressed

\* what FileFormat.save does once the stream h is open: write_stream into the
\* stream, through the compressing view unless compressed is 0, then close
plz_write(g, a, h, compressed) ==
    LET d == decompress(g.handles[h].buf, compressed = 2)
    IN  Bind(write_stream(g.archives[a].filenames, g.archives[a].files), LAMBDA out :
            Bind(IF compressed = 0
                 THEN RomFile_close([g EXCEPT !.handles[h].buf = out,
                                              !.handles[h].pos = Len(out)], h)
                 ELSE wrapper_close(g, h, out, d.double_typed),
                 LAMBDA c : R(Release(c.g, h), c.status, None)))

\* FileFormat.save() of the PlzArchive a, no arguments: reopen _last_filename on the ROM
plz_save(g, a) ==
    Bind(rom_open(g, ByPath(g.archives[a]._last_filename), <<"w", "b", "+">>), LAMBDA o :
        IF o.status # "ok" THEN o
        ELSE plz_write(o.g, a, o.ret, effective_compression(o.g, a, None)))

\* FileFormat.save(filename=filename, compressed=compressed, rom=rom) of the
\* PlzArchive a: the file is opened on the ROM in "wb+" and remembered
plz_save_as(g, a, filename, compressed) ==
    Bind(rom_open(g, ByPath(filename), <<"w", "b", "+">>), LAMBDA o :
        IF o.status # "ok" THEN o
        ELSE plz_write([o.g EXCEPT !.archives[a]._last_filename = filename,
                                   !.archives[a]._last_rom = Rom],
                       a, o.ret, effective_compression(o.g, a, compressed)))

\* FileFormat.__init__(filename, compressed=compressed) of the PlzArchive a
\* with no rom: the file of the host is opened with the builtin open
host_load(g, a, filename, compressed) ==
    LET made(rd) == [live |-> TRUE, filenames |-> rd.filenames, files |-> rd.files,
                     _last_filename |-> filename, _last_rom |-> None,
                     _last_compressed |-> compressed]
        d == IF compressed = 0
             THEN [status |-> "ok", data |-> g.host_files[filename]]
             ELSE decompress(g.host_files[filename], compressed = 2)
    IN  IF d.status # "ok" THEN R(g, d.status, None)
        ELSE Bind(read_stream(d.data), LAMBDA rd :
                 IF rd.status # "ok" THEN R(g, rd.status, None)
                 ELSE R([g EXCEPT !.archives[a] = made(rd)], "ok", a))

\* FileFormat.save() of the PlzArchive a, no arguments
save_no_arguments(g, a) ==
    LET _last_filename == g.archives[a]._last_filename
    IN  IF _last_filename = <<>> THEN R(g, "AttributeError", None)
        ELSE IF g.archives[a]._last_rom # None THEN plz_save(g, a)
        ELSE \* open(self._last_filename, "wb+"): the file is truncated and the
             \* stream is not kept, so `file` is still None
             R([g EXCEPT !.host_files[_last_filename] = <<>>], "AttributeError", None)

\* `if filename is not None: file.close()` / `if should_close: file.close()`:
\* the orchestration closes the stream only when it opened it itself
closes_stream(filename_given) == filename_given

\* the CompressedIOWrapper made inside a load or a save is a local variable:
\* when the call ends nothing refers to it and its finaliser, once it has run
\* (fin), closes it, which flushes into and closes the stream it wraps.
\* An exception inside a finaliser is dropped.
wrapper_dropped(g, h, current, double_typed, fin) ==
    IF fin THEN wrapper_close(g, h, current, double_typed).g ELSE g

\* FileFormat.__init__(file=h, compressed=compressed) of the PlzArchive a: the
\* caller's stream h is decoded from its cursor on
plz_load_from(g, a, h, compressed, fin) ==
    LET f == g.handles[h]
        rest == SubSeq(f.buf, f.pos + 1, Len(f.buf))
        g1 == [g EXCEPT !.handles[h].pos = Len(f.buf)]
        made(rd) == [live |-> TRUE, filenames |-> rd.filenames, files |-> rd.files,
                     _last_filename |-> <<>>, _last_rom |-> None,
                     _last_compressed |-> compressed]
    IN  IF compressed = 0
        THEN Bind(read_stream(rest), LAMBDA rd :
                 IF rd.status # "ok" THEN R(g1, rd.status, None)
                 ELSE Bind([g1 EXCEPT !.archives[a] = made(rd)], LAMBDA g2 :
                          IF closes_stream(FALSE)
                          THEN R(RomFile_close(g2, h).g, "ok", a)
                          ELSE R(g2, "ok", a)))
        ELSE Bind(decompress(rest, compressed = 2), LAMBDA d :
                 IF d.status # "ok" THEN R(g1, d.status, None)
                 ELSE Bind(read_stream(d.data), LAMBDA rd :
                          IF rd.status # "ok"
                          THEN R(wrapper_dropped(g1, h, d.data, d.double_typed, fin),
                                 rd.status, None)
                          ELSE Bind([g1 EXCEPT !.archives[a] = made(rd)], LAMBDA g2 :
                                   IF closes_stream(FALSE)
                                   THEN R(wrapper_close(g2, h, d.data, d.double_typed).g,
                                          "ok", a)
                                   ELSE R(wrapper_dropped(g2, h, d.data, d.double_typed, fin),
                                          "ok", a))))

\* FileFormat.save(file=h, compressed=compressed) of the PlzArchive a into the
\* caller's stream h, which is empty with its cursor at 0
plz_save_to(g, a, h, compressed, fin) ==
    Bind(write_stream(g.archives[a].filenames, g.archives[a].files), LAMBDA out :
        IF effective_compression(g, a, compressed) = 0
        THEN Bind([g EXCEPT !.handles[h].buf = out, !.handles[h].pos = 8], LAMBDA g1 :
                 IF closes_stream(FALSE) THEN R(RomFile_close(g1, h).g, "ok", None)
                 ELSE R(g1, "ok", None))
        ELSE Bind(decompress(<<>>, effective_compression(g, a, compressed) = 2), LAMBDA d :
                 IF d.status # "ok" THEN R(g, d.status, None)
                 ELSE IF closes_stream(FALSE)
                 THEN R(wrapper_close(g, h, out, d.double_typed).g, "ok", None)
                 ELSE R(wrapper_dropped(g, h, out, d.double_typed, fin), "ok", None)))

\* a cache that never has the path
is_never_loaded(g, path) == FALSE

\* path in self._loaded_archives
is_loaded(g, path) == g._loaded_archives[path] # None

NewArchive(g) == CHOOSE a \in ArchiveIds :
    ~g.archives[a].live /\ \A k \in ArchiveIds : ~g.archives[k].live => a <= k

\* NintendoDSRom.get_archive
get_archive(g, path, fin) ==
    IF ~is_loaded(g, path)
    THEN Bind(plz_load([g EXCEPT !._get_archive_call = TRUE], NewArchive(g), path, fin),
              LAMBDA ld :
                  IF ld.status # "ok" THEN ld
                  ELSE R([ld.g EXCEPT !._loaded_archives[path] = ld.ret,
                                      !._get_archive_call = FALSE],
                         "ok", ld.ret))
    ELSE R(g, "ok", g._loaded_archives[path])

RECURSIVE save_archives(_, _)
\* the loop of NintendoDSRom.save over _loaded_archives, in insertion order
save_archives(g, a) ==
    IF a > MaxArchives THEN R(g, "ok", None)
    ELSE IF \A p \in DOMAIN g._loaded_archives : g._loaded_archives[p] # a
    THEN save_archives(g, a + 1)
    ELSE Bind(plz_save(g, a), LAMBDA sv :
             IF sv.status # "ok" THEN sv ELSE save_archives(sv.g, a + 1))

\* NintendoDSRom.save: the archives first, then the ROM's own layout
rom_save(g) ==
    Bind(save_archives([g EXCEPT !._get_archive_call = TRUE], 1), LAMBDA sv :
        IF sv.status # "ok" THEN sv
        ELSE R([sv.g EXCEPT !._get_archive_call = FALSE], "ok", None))

\* the second half of move_file: the file is created at new_path with the data
move_write(g, new_path, data) ==
    Bind(rom_open(g, ByPath(new_path), <<"w", "b", "+">>), LAMBDA w :
        IF w.status # "ok" THEN w
        ELSE Bind(RomFile_close([w.g EXCEPT !.handles[w.ret].buf = data,
                                            !.handles[w.ret].pos = Len(data)], w.ret),
                  LAMBDA c2 : R(Release(c2.g, w.ret), c2.status, None)))

\* NintendoDSRom.move_file
move_file(g, old_path, new_path) ==
    Bind(rom_open(g, ByPath(old_path), <<"r", "b">>), LAMBDA o :
        IF o.status # "ok" THEN o
        ELSE Bind(RomFile_close(o.g, o.ret), LAMBDA c :
                 Bind(remove_file(Release(c.g, o.ret), old_path), LAMBDA rm :
                     IF rm.status # "ok" THEN rm
                     ELSE move_write(rm.g, new_path, o.g.handles[o.ret].buf))))

(***************************************************************************)
(* The inputs the calls are made with.                                     *)
(***************************************************************************)
Names == {"f", "g"}

\* the file paths: the two names in every folder below the root, and a path
\* into a folder that is never in the tree
RomPaths == {PathOf(n) \o <<x>> : n \in Nodes \ {Root}, x \in Names} \cup {<<"Z", "f">>}

\* entry names of an archive, as character sequences
EntryNames == {<<"x">>, <<"y">>}

Modes == {<<"r", "b">>, <<"w", "b">>, <<"a", "b">>, <<"w", "b", "+">>, <<"r">>,
          <<"x">>, <<"r", "+", "b">>, <<"w", "b", "+", "\n">>}

NoMode == <<>>

WriteBytes == {7}

\* the archive the ROM holds at B/f when it is loaded: one entry "x" = 01
\* the filenames on the host
HostPaths == {<<"a.plz">>}

InitialArchive == compress(write_stream(<< <<"x">> >>, << <<1>> >>), FALSE)

\* the record of the call made last
Called(op, status, fs, path, h, mode, ret) ==
    [op |-> op, status |-> status, fs |-> fs, path |-> path, h |-> h,
     mode |-> mode, ret |-> ret]

(***************************************************************************)
(* The initial state: a ROM just loaded, nothing opened.                   *)
(***************************************************************************)
Init ==
    /\ files = << <<1>>, InitialArchive >>
    /\ filenames = [n \in Nodes |->
            CASE n = "/" -> [present |-> TRUE, firstID |-> 0, files |-> <<>>]
              [] n = "A" -> [present |-> TRUE, firstID |-> 0, files |-> <<"f">>]
              [] n = "A/C" -> [present |-> TRUE, firstID |-> 1, files |-> <<>>]
              [] n = "B" -> [present |-> TRUE, firstID |-> 1, files |-> <<"f">>]]
    /\ archives = [a \in ArchiveIds |-> NoArchive]
    /\ handles = [h \in HandleIds |-> FreeHandle]
    /\ opened_files = <<>>
    /\ _opened_files = <<>>
    /\ _loaded_archives = [p \in RomPaths |-> None]
    /\ _get_archive_call = FALSE
    /\ host_files = [p \in HostPaths |-> InitialArchive]
    /\ wrapper = NoWrapper
    /\ reader = NoReader
    /\ last = Called("init", "ok", Rom, <<>>, 0, NoMode, None)

(***************************************************************************)
(* The calls on the ROM.                                                   *)
(***************************************************************************)
AddFile(p) ==
    /\ Len(files) < MaxFiles
    /\ \E r \in {add_file(State, p)} :
           /\ Becomes(r.g)
           /\ last' = Called("add_file", r.status, Rom, p, 0, NoMode, r.ret)

RemoveFile(p) ==
    \E r \in {remove_file(State, p)} :
        /\ Becomes(r.g)
        /\ last' = Called("remove_file", r.status, Rom, p, 0, NoMode, r.ret)

RenameFile(p, x) ==
    \E r \in {rename_file(State, p, x)} :
        /\ Becomes(r.g)
        /\ last' = Called("rename_file", r.status, Rom, p, 0, NoMode, None)

AddFolder(n) ==
    /\ ~filenames[n].present
    /\ filenames[ParentOf(n)].present
    /\ \E r \in {add_folder(State, n)} :
           /\ Becomes(r.g)
           /\ last' = Called("add_folder", r.status, Rom, PathOf(n), 0, NoMode, None)

RemoveFolder(n) ==
    \E r \in {remove_folder(State, n)} :
        /\ Becomes(r.g)
        /\ last' = Called("remove_folder", r.status, Rom, PathOf(n), 0, NoMode, None)

MoveFile(old, new) ==
    /\ FreeIds(State) # {}
    /\ \E r \in {move_file(State, old, new)} :
           /\ Len(r.g.files) <= MaxFiles
           /\ Becomes(r.g)
           /\ last' = Called("move_file", r.status, Rom, old, 0, NoMode, None)

Open(file, mode) ==
    /\ FreeIds(State) # {}
    /\ \E r \in {rom_open(State, file, mode)} :
           /\ Len(r.g.files) <= MaxFiles
           /\ Becomes(r.g)
           /\ last' = Called("open", r.status, Rom,
                             IF file.int THEN <<>> ELSE file.v,
                             IF r.status = "ok" THEN r.ret ELSE 0, mode,
                             IF file.int THEN file.v ELSE None)

GetArchive(p, fin) ==
    /\ FreeIds(State) # {}
    /\ is_loaded(State, p) \/ \E a \in ArchiveIds : ~archives[a].live
    /\ \E r \in {get_archive(State, p, fin)} :
           /\ Becomes(r.g)
           /\ last' = Called("get_archive", r.status, Rom, p, 0, NoMode, r.ret)

Save ==
    /\ FreeIds(State) # {}
    /\ \E r \in {rom_save(State)} :
           /\ Len(r.g.files) <= MaxFiles
           /\ Becomes(r.g)
           /\ last' = Called("save", r.status, Rom, <<>>, 0, NoMode, None)

(***************************************************************************)
(* The calls on a PlzArchive object.                                       *)
(***************************************************************************)
(***************************************************************************)
(* The calls on a CompressedIOWrapper the caller made.                     *)
(***************************************************************************)
\* CompressedIOWrapper(h, double_typed)
ViewOpen(h, double_typed) ==
    /\ wrapper.st = "none"
    /\ handles[h].st = "open"
    /\ \E r \in {wrapper_init(State, h, double_typed)} :
           /\ Becomes(r.g)
           /\ last' = Called("view_open", r.status, handles[h].fs, <<>>, h, NoMode, None)

\* view.write(bytes([b]))
ViewWrite(b) ==
    /\ wrapper.st = "open"
    /\ wrapper.pos < MaxBuf
    /\ Becomes([State EXCEPT !.wrapper = RomFile_write(@, b)])
    /\ last' = Called("view_write", "ok", handles[wrapper.stream].fs, <<>>,
                      wrapper.stream, NoMode, None)

\* view.flush()
ViewFlush ==
    /\ wrapper.st = "open"
    /\ \E r \in {wrapper_flush(State, wrapper.stream, wrapper.buf, wrapper.double_typed)} :
           /\ Becomes(r.g)
           /\ last' = Called("view_flush", r.status, handles[wrapper.stream].fs, <<>>,
                             wrapper.stream, NoMode, None)

\* view.close(): flush, close the view, close the stream under it
ViewClose ==
    /\ wrapper.st = "open"
    /\ \E r \in {wrapper_close(State, wrapper.stream, wrapper.buf, wrapper.double_typed)} :
           /\ Becomes(IF r.status # "ok" THEN r.g
                      ELSE [r.g EXCEPT !.wrapper.st = "closed", !.wrapper.buf = <<>>])
           /\ last' = Called("view_close", r.status, handles[wrapper.stream].fs, <<>>,
                             wrapper.stream, NoMode, None)

\* PlzArchive(filename=p, compressed=compressed), no rom
HostLoad(p, compressed) ==
    /\ \E a \in ArchiveIds : ~archives[a].live
    /\ \E r \in {host_load(State, NewArchive(State), p, compressed)} :
           /\ Becomes(r.g)
           /\ last' = Called("host_load", r.status, None, p, 0, NoMode, r.ret)

\* a.save()
PlzSave(a) ==
    /\ archives[a].live
    /\ FreeIds(State) # {}
    /\ \E r \in {save_no_arguments(State, a)} :
           /\ Becomes(r.g)
           /\ last' = Called("plz_save", r.status, a, archives[a]._last_filename, 0,
                             NoMode, None)

\* PlzArchive(file=h, compressed=compressed) on an open stream of the caller
LoadFrom(h, compressed, fin) ==
    /\ handles[h].st = "open"
    /\ \E a \in ArchiveIds : ~archives[a].live
    /\ \E r \in {plz_load_from(State, NewArchive(State), h, compressed, fin)} :
           /\ Becomes(r.g)
           /\ last' = Called("load", r.status, handles[h].fs, <<>>, h, NoMode, r.ret)

\* a.save(file=h, compressed=compressed) on an open, empty stream of the caller
SaveTo(a, h, compressed, fin) ==
    /\ archives[a].live
    /\ handles[h].st = "open" /\ handles[h].buf = <<>>
    /\ \E r \in {plz_save_to(State, a, h, compressed, fin)} :
           /\ Becomes(r.g)
           /\ last' = Called("save_to", r.status, handles[h].fs, <<>>, h, NoMode, a)

\* a.save(filename=p, compressed=compressed, rom=rom)
SaveAs(a, p, compressed) ==
    /\ archives[a].live
    /\ FreeIds(State) # {}
    /\ \E r \in {plz_save_as(State, a, p, compressed)} :
           /\ Len(r.g.files) <= MaxFiles
           /\ Becomes(r.g)
           /\ last' = Called("save_as", r.status, Rom, p, 0, NoMode, a)

PlzAddFile(a, x) ==
    /\ archives[a].live
    /\ Len(archives[a].files) < MaxEntries
    /\ \E r \in {plz_add_file(State, a, x)} :
           /\ Becomes(r.g)
           /\ last' = Called("add_file", r.status, a, x, 0, NoMode, r.ret)

PlzRemoveFile(a, x) ==
    /\ archives[a].live
    /\ \E r \in {plz_remove_file(State, a, x)} :
           /\ Becomes(r.g)
           /\ last' = Called("remove_file", r.status, a, x, 0, NoMode, None)

PlzRenameFile(a, x, y) ==
    /\ archives[a].live
    /\ \E r \in {plz_rename_file(State, a, x, y)} :
           /\ Becomes(r.g)
           /\ last' = Called("rename_file", r.status, a, x, 0, NoMode, None)

PlzOpen(a, file, mode) ==
    /\ archives[a].live
    /\ FreeIds(State) # {}
    /\ \E r \in {plz_open(State, a, file, mode)} :
           /\ Len(r.g.archives[a].files) <= MaxEntries
           /\ Becomes(r.g)
           /\ last' = Called("open", r.status, a,
                             IF file.int THEN <<>> ELSE file.v,
                             IF r.status = "ok" THEN r.ret ELSE 0, mode,
                             IF file.int THEN file.v ELSE None)

(***************************************************************************)
(* The calls on a RomFile.                                                 *)
(***************************************************************************)
Write(h, b) ==
    /\ handles[h].st = "open"
    /\ handles[h].pos < MaxBuf
    /\ Becomes([State EXCEPT !.handles[h] = RomFile_write(@, b)])
    /\ last' = Called("write", "ok", handles[h].fs, <<>>, h, NoMode, None)

\* BytesIO.read(): everything from the cursor to the end, the cursor at the end
Read(h) ==
    /\ handles[h].st = "open"
    /\ Becomes([State EXCEPT !.handles[h].pos = Len(handles[h].buf)])
    /\ last' = Called("read", "ok", handles[h].fs, <<>>, h, NoMode, None)

Flush(h) ==
    /\ handles[h].st = "open"
    /\ \E r \in {RomFile_flush(State, h)} :
           /\ Becomes(r.g)
           /\ last' = Called("flush", r.status, handles[h].fs, <<>>, h, NoMode, None)

Close(h) ==
    /\ handles[h].st \in {"open", "closed"}
    /\ \E r \in {RomFile_close(State, h)} :
           /\ Becomes(r.g)
           /\ last' = Called("close", r.status, handles[h].fs, <<>>, h, NoMode, None)

\* RomFile.__exit__: close, then IOBase.__exit__, which closes again
Exit(h) ==
    /\ handles[h].st \in {"open", "closed"}
    /\ \E c \in {RomFile_close(State, h)} :
       \E r \in {IF c.status # "ok" THEN c ELSE RomFile_close(c.g, h)} :
           /\ Becomes(r.g)
           /\ last' = Called("exit", r.status, handles[h].fs, <<>>, h, NoMode, None)

\* RomFile.__del__ of an object nothing refers to any more (the registry
\* refers to every handle it lists): close, then the object is gone
Del(h) ==
    /\ handles[h].st = "closed"
    /\ ~Contains(opened_files, h)
    /\ \E r \in {RomFile_close(State, h)} :
           /\ Becomes(Release(r.g, h))
           /\ last' = Called("del", r.status, handles[h].fs, <<>>, h, NoMode, None)

(***************************************************************************)
(* Specifications.                                                         *)
(***************************************************************************)
\* the caller holds no RomFile object
NoneHeld == \A h \in HandleIds : handles[h].st = "free"

Files == {ByPath(p) : p \in RomPaths} \cup {ById(i) : i \in 0..MaxFiles}

Entries == {ByPath(x) : x \in EntryNames} \cup {ById(i) : i \in 0..MaxEntries}

NextAll ==
    \/ \E p \in RomPaths : AddFile(p)
    \/ \E p \in RomPaths : RemoveFile(p)
    \/ \E p \in RomPaths, x \in Names : RenameFile(p, x)
    \/ \E n \in Nodes \ {Root} : AddFolder(n)
    \/ \E n \in Nodes \ {Root} : RemoveFolder(n)
    \/ \E old \in RomPaths, new \in RomPaths : MoveFile(old, new)
    \/ \E file \in Files, mode \in Modes : Open(file, mode)
    \/ \E p \in RomPaths, fin \in BOOLEAN : GetArchive(p, fin)
    \/ Save
    \/ \E a \in ArchiveIds, x \in EntryNames : PlzAddFile(a, x)
    \/ \E a \in ArchiveIds, x \in EntryNames : PlzRemoveFile(a, x)
    \/ \E a \in ArchiveIds, x \in EntryNames, y \in EntryNames : PlzRenameFile(a, x, y)
    \/ \E a \in ArchiveIds, file \in Entries, mode \in Modes : PlzOpen(a, file, mode)
    \/ \E h \in HandleIds, b \in WriteBytes : Write(h, b)
    \/ \E h \in HandleIds : Read(h)
    \/ \E h \in HandleIds : Flush(h)
    \/ \E h \in HandleIds : Close(h)
    \/ \E h \in HandleIds : Exit(h)
    \/ \E h \in HandleIds : Del(h)

SpecAll == Init /\ [][NextAll]_vars

\* the folder tree under add_file / remove_file / add_folder / remove_folder
NextTree ==
    \/ \E p \in RomPaths : AddFile(p)
    \/ \E p \in RomPaths : RemoveFile(p)
    \/ \E n \in Nodes \ {Root} : AddFolder(n)
    \/ \E n \in Nodes \ {Root} : RemoveFolder(n)

SpecTree == Init /\ [][NextTree]_vars

\* handles on the ROM while files are added and removed around them
HandlePaths == {<<"A", "f">>, <<"A", "g">>, <<"B", "f">>}

HandleModes == {<<"r", "b">>, <<"w", "b">>, <<"a", "b">>}

NextHandles ==
    \/ AddFile(<<"A", "g">>)
    \/ \E p \in {<<"A", "f">>, <<"A", "g">>} : RemoveFile(p)
    \/ \E p \in HandlePaths, mode \in HandleModes : NoneHeld /\ Open(ByPath(p), mode)
    \/ \E h \in HandleIds, b \in WriteBytes : Write(h, b)
    \/ \E h \in HandleIds : Flush(h)
    \/ \E h \in HandleIds : Close(h)
    \/ \E h \in HandleIds : Exit(h)
    \/ \E h \in HandleIds : Del(h)

SpecHandles == Init /\ [][NextHandles]_vars

(***************************************************************************)
(* What the claims speak of.                                               *)
(***************************************************************************)
\* the slot IDs of a folder's own files
OwnIds(fn, n) ==
    IF fn[n].present THEN {fn[n].firstID + i - 1 : i \in 1..Len(fn[n].files)} ELSE {}

RECURSIVE SubtreeIds(_, _)
\* the slot IDs reachable in the subtree of n
SubtreeIds(fn, n) ==
    OwnIds(fn, n) \cup UNION {SubtreeIds(fn, Children(n)[k]) : k \in 1..Len(Children(n))}

Min(S) == CHOOSE x \in S : \A y \in S : x <= y

\* the content a path resolves to
ContentAt(fl, fn, p) == fl[idOf(fn, p) + 1]

Resolves(fn, p) == idOf(fn, p) # None

Count(s, x) == Cardinality({i \in 1..Len(s) : s[i] = x})

\* the slots of the filesystem fs after the step
FilesAfter(fs) == IF fs = Rom THEN files' ELSE archives'[fs].files

RomCall(op) == last'.op = op /\ last'.fs = Rom /\ last'.status = "ok"

(***************************************************************************)
(* C1.  As claimed: after every add_file / remove_file every folder's      *)
(* firstID is the least slot ID reachable in its subtree.  Refuted: an     *)
(* add_file into an empty folder steps the firstID of the empty-handed     *)
(* folders above it past the new file.                                     *)
(***************************************************************************)
C1_FirstIdIsSubtreeMin ==
    \A n \in Nodes :
        filenames[n].present /\ SubtreeIds(filenames, n) # {}
            => filenames[n].firstID = Min(SubtreeIds(filenames, n))

\* C1 as amended: after every add_file / remove_file the own files of each
\* folder sit at the slot IDs firstID .. firstID + len(files) - 1 (so firstID is
\* the least slot ID of the folder's own files), these ranges are pairwise
\* disjoint and cover exactly the slots, and no folder's firstID lies strictly
\* inside another folder's range.
C1_OwnRangesPartitionSlots ==
    /\ \A n, m \in Nodes :
           n # m => OwnIds(filenames, n) \cap OwnIds(filenames, m) = {}
    /\ UNION {OwnIds(filenames, n) : n \in Nodes} = 0..(Len(files) - 1)
    /\ \A n, m \in Nodes :
           filenames[n].present /\ n # m
               => ~(/\ filenames[m].firstID < filenames[n].firstID
                    /\ filenames[n].firstID < filenames[m].firstID + Len(filenames[m].files))

\* an add_file into the empty folder A/C of the file-less folder A went through,
\* with files in other folders around it
C1_Witness ==
    /\ last.op = "add_file" /\ last.fs = Rom /\ last.status = "ok"
    /\ last.path = <<"A", "C", "f">>
    /\ filenames["A"].files = <<>>
    /\ filenames["A/C"].files = <<"f">>
    /\ filenames["B"].files # <<>>

(***************************************************************************)
(* C4.  add_file on an existing folder returns firstID + the number of     *)
(* files the folder had, appends the name to the folder's list, adds one   *)
(* slot, and every path that resolved before resolves to the same bytes.   *)
(***************************************************************************)
C4_AddFile ==
    [][RomCall("add_file") =>
        LET p == last'.path
            fd == subfolder(filenames, Root, Front(p))
        IN  /\ last'.ret = filenames[fd].firstID + Len(filenames[fd].files)
            /\ filenames'[fd].files = Append(filenames[fd].files, Last(p))
            /\ Len(files') = Len(files) + 1
            /\ \A q \in RomPaths :
                   Resolves(filenames, q) =>
                       /\ Resolves(filenames', q)
                       /\ ContentAt(files', filenames', q) = ContentAt(files, filenames, q)
    ]_vars

\* add_file put a slot in the middle: a file of a later folder moved up
C4_Witness ==
    /\ last.op = "add_file" /\ last.fs = Rom /\ last.status = "ok"
    /\ last.ret >= 1
    /\ last.ret < Len(files) - 1
    /\ \E q \in RomPaths : Resolves(filenames, q) /\ idOf(filenames, q) > last.ret

(***************************************************************************)
(* C5.  As claimed: remove_file takes away that name and that slot, the    *)
(* removed path no longer resolves, every other path resolves to the same  *)
(* bytes (IDs above the removed one lowered by one).  Refuted where the    *)
(* folder lists the name twice: the path then resolves to the other entry. *)
(***************************************************************************)
RemoveFrame ==
    LET p == last'.path
        fd == subfolder(filenames, Root, Front(p))
        id == idOf(filenames, p)
    IN  /\ last'.ret = id
        /\ Len(files') = Len(files) - 1
        /\ files' = RemoveAt(files, id + 1)
        /\ filenames'[fd].files = ListRemove(filenames[fd].files, Last(p))
        /\ \A n \in Nodes \ {fd} : filenames'[n].files = filenames[n].files
        /\ \A q \in RomPaths \ {p} :
               Resolves(filenames, q) =>
                   /\ Resolves(filenames', q)
                   /\ ContentAt(files', filenames', q) = ContentAt(files, filenames, q)
                   /\ idOf(filenames', q) =
                        IF idOf(filenames, q) > id THEN idOf(filenames, q) - 1
                        ELSE idOf(filenames, q)

\* C5 as claimed: remove_file removes that name and that slot, the other
\* paths keep their content, and the removed path no longer resolves
C5_RemovedPathNeverResolves ==
    [][RomCall("remove_file") => RemoveFrame /\ ~Resolves(filenames', last'.path)]_vars

\* C5 as amended: remove_file takes away the first entry of that name and its
\* slot; the removed path no longer resolves unless the folder listed the name
\* more than once, in which case it resolves to the next entry of that name;
\* every other path resolves to the same bytes, IDs above the removed one
\* lowered by one and lower IDs unchanged.
C5_RemoveFile ==
    [][RomCall("remove_file") =>
        LET p == last'.path
            fd == subfolder(filenames, Root, Front(p))
        IN  /\ RemoveFrame
            /\ Resolves(filenames', p) <=> Count(filenames[fd].files, Last(p)) > 1
    ]_vars

\* remove_file took a slot below another file, which moved down by one
C5_Witness ==
    /\ last.op = "remove_file" /\ last.fs = Rom /\ last.status = "ok"
    /\ ~Resolves(filenames, last.path)
    /\ \E q \in RomPaths : Resolves(filenames, q) /\ idOf(filenames, q) >= last.ret
    /\ \E q \in RomPaths : Resolves(filenames, q) /\ idOf(filenames, q) < last.ret

(***************************************************************************)
(* C2.  As claimed: after an add_file or remove_file on the ROM every      *)
(* handle that is still open designates the slot it was opened against     *)
(* (its id moved with the slot), or it has been force-closed.  Refuted:    *)
(* the cascades walk _opened_files, which nothing ever fills; handles      *)
(* register in Archive.opened_files, so no id moves and nothing is closed. *)
(***************************************************************************)
\* where the slot with ID i is after the call recorded in last'
SlotAfterAdd(i, new_id) == IF i >= new_id THEN i + 1 ELSE i

SlotAfterRemove(i, removed_id) == IF i > removed_id THEN i - 1 ELSE i

\* C2: across add_file / remove_file an open handle's id moves with its slot,
\* and a handle on the removed slot does not stay open
C2_HandlesFollowSlots ==
    [][\A h \in HandleIds :
        handles[h].st = "open" /\ handles[h].fs = Rom /\ handles'[h].st = "open" =>
            /\ RomCall("add_file") =>
                   handles'[h].id = SlotAfterAdd(handles[h].id, last'.ret)
            /\ RomCall("remove_file") =>
                   /\ handles[h].id # last'.ret
                   /\ handles'[h].id = SlotAfterRemove(handles[h].id, last'.ret)
    ]_vars

(***************************************************************************)
(* C10.  As claimed: leaving the scope of a write- or append-mode RomFile  *)
(* that was not closed leaves the handle's buffer in its slot and the      *)
(* handle out of the open-handle registry.  Refuted on a handle whose id   *)
(* went stale (C2): the flush inside close raises IndexError, the close is *)
(* abandoned and the handle stays registered.                              *)
(***************************************************************************)
C10_ScopeExitReleases ==
    [][\A h \in HandleIds :
        /\ last'.op = "exit" /\ last'.h = h
        /\ handles[h].st = "open" /\ handles[h].opp \in {"w", "a"}
        => /\ last'.status = "ok"
           /\ handles[h].id < Len(FsFiles(State, handles[h].fs))
           /\ FilesAfter(handles[h].fs)[handles[h].id + 1] = handles[h].buf
           /\ ~Contains(opened_files', h)
           /\ handles'[h].st = "closed"
    ]_vars


(***************************************************************************)
(* open, on the ROM and on the archive loaded from B/f                     *)
(***************************************************************************)
OpenPaths == {<<"A", "f">>, <<"A", "g">>, <<"Z", "f">>}

\* a path or an ID, in range or past the last slot
OpenFiles == {ByPath(p) : p \in OpenPaths} \cup {ById(0), ById(MaxFiles)}

OpenEntries == {ByPath(x) : x \in EntryNames} \cup {ById(0), ById(MaxEntries)}

\* read, create, no mode at all, and a mode with a line feed after it
OpenModes == {<<"r", "b">>, <<"w", "b", "+">>, <<"x">>, <<"w", "b", "+", "\n">>}

NextOpen ==
    \/ \E file \in OpenFiles, mode \in OpenModes : NoneHeld /\ Open(file, mode)
    \/ \E fin \in BOOLEAN : NoneHeld /\ GetArchive(<<"B", "f">>, fin)
    \/ \E a \in ArchiveIds, file \in OpenEntries, mode \in OpenModes :
           NoneHeld /\ PlzOpen(a, file, mode)
    \/ \E a \in ArchiveIds, x \in EntryNames : PlzRemoveFile(a, x)
    \/ \E p \in {<<"A", "g">>, <<"Z", "f">>} : AddFile(p)
    \/ \E p \in {<<"A", "f">>, <<"Z", "f">>} : RemoveFile(p)
    \/ \E n \in {"A/C", "B"} : RemoveFolder(n)
    \/ \E h \in HandleIds : Close(h)
    \/ \E h \in HandleIds : Del(h)

SpecOpen == Init /\ [][NextOpen]_vars

(***************************************************************************)
(* Claims about open.                                                      *)
(***************************************************************************)
\* a mode string made of r, w or a, then an optional b, then an optional +
ModeGrammar(mode) ==
    /\ Len(mode) \in 1..3
    /\ mode[1] \in {"r", "w", "a"}
    /\ \/ Len(mode) = 1
       \/ Len(mode) = 2 /\ mode[2] \in {"b", "+"}
       \/ Len(mode) = 3 /\ mode[2] = "b" /\ mode[3] = "+"

\* the mode string asks for creation
AsksCreate(mode) == mode[Len(mode)] = "+"

\* an open(path, mode) call, on the ROM or on an archive, has just ended
OpenCall == last'.op = "open" /\ last'.path # <<>>

\* the path resolves in the filesystem fs before the call
ResolvesIn(fs, p) ==
    IF fs = Rom THEN idOf(filenames, p) # None ELSE Contains(archives[fs].filenames, p)

\* slots, names and registry are what they were before the call
NothingChanged ==
    /\ files' = files
    /\ filenames' = filenames
    /\ archives' = archives
    /\ opened_files' = opened_files
    /\ _opened_files' = _opened_files

\* C6: open with a mode string outside the grammar r|w|a, optional b,
\* optional + ends with ValueError and leaves slots, names and registry as
\* they were, on the ROM and on an archive.
C6_InvalidModeFails ==
    [][last'.op = "open" /\ ~ModeGrammar(last'.mode) =>
          last'.status = "ValueError" /\ NothingChanged]_vars

\* C7: open(path, mode) without the create flag on a path that does not
\* resolve ends with FileNotFoundError and changes nothing: no slot, no name,
\* no registered handle, on the ROM and on an archive.
C7_MissingWithoutCreate ==
    [][/\ OpenCall
       /\ ModeGrammar(last'.mode) /\ ~AsksCreate(last'.mode)
       /\ ~ResolvesIn(last'.fs, last'.path)
       => /\ last'.status = "FileNotFoundError"
          /\ NothingChanged
          /\ handles' = handles]_vars

\* C7 witness: open("y", "rb") on the loaded archive, which has no entry y
\* but has an entry x, has just failed with FileNotFoundError.
C7_Witness ==
    /\ last.op = "open" /\ last.fs # Rom /\ last.path = <<"y">>
    /\ last.mode = <<"r", "b">>
    /\ last.status = "FileNotFoundError"
    /\ archives[last.fs].live
    /\ archives[last.fs].filenames = << <<"x">> >>

\* the ID add_file returns for the path p in the filesystem fs
IdAddFileReturns(fs, p) ==
    IF fs = Rom THEN NewFileId(filenames[subfolder(filenames, Root, Front(p))])
    ELSE Len(archives[fs].files)

\* C8: open(path, mode) with the create flag on a path that does not resolve,
\* in an existing folder (on an archive: any unused name), adds the file and
\* returns an open handle bound to the ID add_file returned, ID 0 included.
C8_CreateBindsNewId ==
    [][/\ OpenCall
       /\ ModeGrammar(last'.mode) /\ AsksCreate(last'.mode)
       /\ ~ResolvesIn(last'.fs, last'.path)
       /\ last'.fs = Rom => subfolder(filenames, Root, Front(last'.path)) # NoFolder
       => /\ last'.status = "ok"
          /\ Len(FilesAfter(last'.fs)) = Len(FsFiles(State, last'.fs)) + 1
          /\ handles'[last'.h].st = "open"
          /\ handles'[last'.h].fs = last'.fs
          /\ handles'[last'.h].id = IdAddFileReturns(last'.fs, last'.path)]_vars

\* C9: when open, add_file, remove_file or remove_folder ends with an error,
\* on the ROM or on an archive, slots, names and registry are exactly what
\* they were before the call.
C9_NoPartialSuccess ==
    [][/\ last'.op \in {"open", "add_file", "remove_file", "remove_folder"}
       /\ last'.status # "ok"
       => NothingChanged]_vars

(***************************************************************************)
(* The archive cache of the ROM.                                           *)
(***************************************************************************)
\* B/f holds an archive, A/f does not, A/g is where B/f can be moved to
CachePaths == {<<"B", "f">>, <<"A", "f">>, <<"A", "g">>}

NextCache ==
    \/ \E p \in CachePaths, fin \in BOOLEAN : NoneHeld /\ GetArchive(p, fin)
    \/ NoneHeld /\ Save
    \/ NoneHeld /\ MoveFile(<<"B", "f">>, <<"A", "g">>)
    \/ RenameFile(<<"B", "f">>, "g")
    \/ AddFile(<<"A", "g">>)
    \/ \E p \in {<<"A", "f">>, <<"B", "f">>} : RemoveFile(p)
    \/ NoneHeld /\ Open(ByPath(<<"B", "f">>), <<"w", "b">>)
    \/ \E a \in ArchiveIds, x \in EntryNames : PlzRemoveFile(a, x)
    \/ \E h \in HandleIds : Close(h)
    \/ \E h \in HandleIds : Del(h)

SpecCache == Init /\ [][NextCache]_vars

\* C3: an archive the cache holds for a path stays the one the cache holds
\* for that path after every call (never evicted, never replaced), its object
\* stays alive, and a get_archive call on that path returns that very object.
C3_CacheIdentity ==
    [][\A p \in RomPaths :
          _loaded_archives[p] # None =>
              /\ _loaded_archives'[p] = _loaded_archives[p]
              /\ archives'[_loaded_archives[p]].live
              /\ last'.op = "get_archive" /\ last'.path = p =>
                     last'.status = "ok" /\ last'.ret = _loaded_archives[p]
    ]_vars

\* C3 witness: get_archive("B/f") has just returned the cached object, whose
\* entry list was emptied in memory while slot B/f still holds the image with
\* one entry that a second load would have read.
C3_Witness ==
    /\ last.op = "get_archive" /\ last.path = <<"B", "f">> /\ last.status = "ok"
    /\ last.ret = _loaded_archives[<<"B", "f">>]
    /\ archives[last.ret].filenames = <<>>
    /\ idOf(filenames, <<"B", "f">>) # None
    /\ files[idOf(filenames, <<"B", "f">>) + 1] = InitialArchive

(***************************************************************************)
(* Two RomFile objects on the file A/g of the ROM: the first in read,      *)
(* write or append mode, the other in write mode, while files before and   *)
(* after A/g are removed.                                                  *)
(***************************************************************************)
FileModes == {<<"r", "b">>, <<"w", "b">>, <<"a", "b">>}

NextFiles ==
    \/ AddFile(<<"A", "g">>)
    \/ \E mode \in FileModes : NoneHeld /\ Open(ByPath(<<"A", "g">>), mode)
    \/ Open(ByPath(<<"A", "g">>), <<"w", "b">>)
    \/ \E h \in HandleIds, b \in WriteBytes : Write(h, b)
    \/ \E h \in HandleIds : Read(h)
    \/ \E h \in HandleIds : Flush(h)
    \/ \E h \in HandleIds : Close(h)
    \/ \E h \in HandleIds : Exit(h)
    \/ \E h \in HandleIds : Del(h)
    \/ \E p \in {<<"A", "f">>, <<"B", "f">>} : RemoveFile(p)

SpecFiles == Init /\ [][NextFiles]_vars

\* the call made last was made on handle h, which was open in one of the modes
HandleCall(ops, h, opps) ==
    /\ last'.op \in ops /\ last'.h = h
    /\ handles[h].st = "open" /\ handles[h].opp \in opps

\* handle h was opened by the call made last, in mode opp
Opened(h, opp) ==
    /\ last'.op = "open" /\ last'.status = "ok" /\ last'.h = h
    /\ handles'[h].opp = opp

\* the write-back of handle h succeeded and left its buffer in the slot of its id
WrittenBack(h) ==
    /\ last'.status = "ok"
    /\ handles[h].id < Len(FsFiles(State, handles[h].fs))
    /\ FilesAfter(handles[h].fs)[handles[h].id + 1] = handles[h].buf

(***************************************************************************)
(* C11.  As claimed: a RomFile opened in write mode starts with an empty   *)
(* buffer and the open changes no slot; after flush or close the slot      *)
(* holds exactly the bytes written, whatever it held before.  Refuted on a *)
(* handle whose id went stale (C2): with the files around A/g removed the  *)
(* flush raises IndexError and the bytes written reach no slot.            *)
(***************************************************************************)
C11_WriteMode ==
    [][\A h \in HandleIds :
        /\ Opened(h, "w") =>
               /\ handles'[h].buf = <<>>
               /\ files' = files /\ archives' = archives
        /\ HandleCall({"flush", "close"}, h, {"w"}) => WrittenBack(h)
    ]_vars

(***************************************************************************)
(* C12.  As claimed: a RomFile opened in append mode starts with the       *)
(* slot's content and the cursor at its end, bytes written are added at    *)
(* the end, and after flush or close the slot holds the content seen at    *)
(* open followed by the bytes written, whatever another handle put in the  *)
(* slot in between.  Refuted on a handle whose id went stale (C2): the     *)
(* write-back raises IndexError.                                           *)
(***************************************************************************)
C12_AppendMode ==
    [][\A h \in HandleIds :
        /\ Opened(h, "a") =>
               /\ handles'[h].buf = FsFiles(State, handles'[h].fs)[handles'[h].id + 1]
               /\ handles'[h].pos = Len(handles'[h].buf)
               /\ files' = files /\ archives' = archives
        /\ HandleCall({"write"}, h, {"a"}) =>
               \E b \in WriteBytes : handles'[h].buf = Append(handles[h].buf, b)
        /\ HandleCall({"flush", "close"}, h, {"a"}) => WrittenBack(h)
    ]_vars

\* the slots of the ROM and of every archive after the step are those before it
SlotsUnchanged ==
    /\ files' = files
    /\ \A a \in ArchiveIds : archives'[a].files = archives[a].files

(***************************************************************************)
(* C13.  A read, flush, close, scope exit or finalisation of a RomFile     *)
(* opened in read mode changes no slot, of the ROM or of an archive.       *)
(***************************************************************************)
C13_ReadModeWritesNothing ==
    [][\A h \in HandleIds :
        /\ last'.op \in {"read", "flush", "close", "exit", "del"} /\ last'.h = h
        /\ handles[h].opp = "r"
        => SlotsUnchanged
    ]_vars

\* a read-mode handle was flushed with bytes in its buffer that its slot, still
\* empty, never held
C13_Witness ==
    /\ last.op = "flush" /\ last.status = "ok"
    /\ handles[last.h].st = "open" /\ handles[last.h].opp = "r"
    /\ handles[last.h].buf # <<>>
    /\ handles[last.h].id < Len(files)
    /\ files[handles[last.h].id + 1] = <<>>

(***************************************************************************)
(* C14.  As claimed: close writes the buffer of a write- or append-mode    *)
(* handle to its slot, then takes the handle out of the open-handle        *)
(* registry, so that after close the handle is not registered; a close,    *)
(* scope exit or finalisation of a handle already closed changes no slot   *)
(* and leaves the registry as it is.  Refuted on a handle whose id went    *)
(* stale (C2): the flush raises IndexError before the handle is closed and *)
(* deregistered.                                                           *)
(***************************************************************************)
C14_CloseProtocol ==
    [][\A h \in HandleIds :
        /\ HandleCall({"close"}, h, {"w", "a"}) => WrittenBack(h)
        /\ HandleCall({"close"}, h, {"r", "w", "a"}) =>
               /\ handles'[h].st = "closed"
               /\ ~Contains(opened_files', h)
        /\ last'.op \in {"close", "exit", "del"} /\ last'.h = h /\ handles[h].st = "closed" =>
               /\ last'.status = "ok"
               /\ SlotsUnchanged
               /\ opened_files' = opened_files
    ]_vars

\* the bytes the cached archive a encodes to at the moment: its entries written
\* by write_stream and compressed
EncodedNow(a) == compress(write_stream(archives'[a].filenames, archives'[a].files), FALSE)

(***************************************************************************)
(* C15.  As claimed: when NintendoDSRom.save has returned, the slot that   *)
(* the path of every cached archive resolves to holds the archive's        *)
(* current encoding, so that the outer image serialised from the slots     *)
(* contains it.  Refuted for an archive whose file has ID 0: the archive's *)
(* save finds the path "missing", adds a second file of the same name and  *)
(* writes there; the path keeps resolving to the slot with the old bytes.  *)
(***************************************************************************)
C15_SaveWritesEveryArchive ==
    [][RomCall("save") =>
          \A p \in RomPaths :
              _loaded_archives[p] # None =>
                  /\ Resolves(filenames', p)
                  /\ ContentAt(files', filenames', p) = EncodedNow(_loaded_archives[p])
    ]_vars

(***************************************************************************)
(* The container codec on its own: an archive object holding entries,      *)
(* write_stream into a fresh stream, read_stream from a stream.            *)
(***************************************************************************)
\* longest name, in characters, and longest payload, in bytes
MaxName == 3

MaxData == 3

\* one name and one payload of every length
NameOf(n) == [i \in 1..n |-> IF i % 2 = 1 THEN "x" ELSE "y"]

DataOf(n) == [i \in 1..n |-> i - 1]

CodecNames == {NameOf(n) : n \in 0..MaxName}

CodecDatas == {DataOf(n) : n \in 0..MaxData}

\* the least multiple of 4 that is at least n
Align4(n) == ((n + 3) \div 4) * 4

\* one record laid out with align4 sizes
LaidOutRecord(name, data) ==
    LET header_size == Align4(16 + Len(name) + 1)
        total_size == Align4(header_size + Len(data))
    IN  U32(header_size) \o U32(total_size) \o U32(0) \o U32(Len(data))
        \o encode(name) \o Zeros(header_size - 16 - Len(name))
        \o data \o Zeros(total_size - header_size - Len(data))

RECURSIVE LaidOutRecords(_, _, _)
LaidOutRecords(names, datas, i) ==
    IF i > Len(datas) THEN <<>>
    ELSE LaidOutRecord(names[i], datas[i]) \o LaidOutRecords(names, datas, i + 1)

\* an archive buffer with the given magic and align4 record sizes
LaidOut(magic, names, datas) ==
    LET body == LaidOutRecords(names, datas, 1)
    IN  U32(16) \o U32(16 + Len(body)) \o magic \o U32(0) \o body

\* b"PCK1", and a buffer too short to hold four bytes of magic
BadMagics == {<<80, 67, 75, 49>>, <<80, 67>>}

\* the streams handed to read_stream: one or two records with align4 sizes,
\* and streams whose magic is not PCK2
Streams ==
    {LaidOut(Magic, <<n>>, <<d>>) : n \in CodecNames, d \in CodecDatas}
    \cup {LaidOut(Magic, <<NameOf(1), n>>, <<d, DataOf(1)>>) : n \in CodecNames, d \in CodecDatas}
    \cup {LaidOut(k, <<n>>, <<DataOf(1)>>) : k \in BadMagics, n \in CodecNames}

\* a PlzArchive object made without a file, given its entries by hand
InitCodec ==
    /\ files = << <<1>>, InitialArchive >>
    /\ filenames = [n \in Nodes |->
            CASE n = "/" -> [present |-> TRUE, firstID |-> 0, files |-> <<>>]
              [] n = "A" -> [present |-> TRUE, firstID |-> 0, files |-> <<"f">>]
              [] n = "A/C" -> [present |-> TRUE, firstID |-> 1, files |-> <<>>]
              [] n = "B" -> [present |-> TRUE, firstID |-> 1, files |-> <<"f">>]]
    /\ \E k \in 0..MaxEntries :
       \E names \in [1..k -> CodecNames], datas \in [1..k -> CodecDatas] :
           archives = [a \in ArchiveIds |->
                          IF a = 1
                          THEN [live |-> TRUE, filenames |-> names, files |-> datas,
                                _last_filename |-> <<>>, _last_rom |-> None, _last_compressed |-> 0]
                          ELSE NoArchive]
    /\ handles = [h \in HandleIds |-> FreeHandle]
    /\ opened_files = <<>>
    /\ _opened_files = <<>>
    /\ _loaded_archives = [p \in RomPaths |-> None]
    /\ _get_archive_call = FALSE
    /\ host_files = [p \in HostPaths |-> InitialArchive]
    /\ wrapper = NoWrapper
    /\ reader = NoReader
    /\ last = Called("init", "ok", Rom, <<>>, 0, NoMode, <<>>)

\* PlzArchive.read_stream on the object a: the lists are emptied, then filled
\* record by record until the loop ends or a read fails
plz_read_stream(g, a, b) ==
    Bind(read_stream(b), LAMBDA rd :
        R([g EXCEPT !.archives[a].filenames = rd.filenames,
                    !.archives[a].files = rd.files],
          rd.status, None))

\* a.write_stream(stream) on an empty stream; the call record keeps the bytes
WriteStream(a) ==
    /\ archives[a].live
    /\ UNCHANGED <<files, filenames, archives, handles, opened_files,
                   _opened_files, _loaded_archives, _get_archive_call, host_files, wrapper, reader>>
    /\ last' = Called("write_stream", "ok", a, <<>>, 0, NoMode,
                      write_stream(archives[a].filenames, archives[a].files))

\* a.read_stream(stream) on a stream holding b; the call record keeps b
ReadStream(a, b) ==
    /\ archives[a].live
    /\ \E r \in {plz_read_stream(State, a, b)} :
           /\ r.status # "diverges"
           /\ Becomes(r.g)
           /\ last' = Called("read_stream", r.status, a, <<>>, 0, NoMode, b)

NextCodec ==
    \/ \E a \in ArchiveIds : WriteStream(a)
    \/ \E a \in ArchiveIds : last.op = "write_stream" /\ ReadStream(a, last.ret)
    \/ \E a \in ArchiveIds, b \in Streams : ReadStream(a, b)

SpecCodec == InitCodec /\ [][NextCodec]_vars

\* the call before was write_stream on an archive and this one read its bytes back
ReadBack ==
    /\ last.op = "write_stream"
    /\ last'.op = "read_stream" /\ last'.fs = last.fs /\ last'.ret = last.ret

(***************************************************************************)
(* C16.  read_stream applied to what write_stream wrote for an archive's   *)
(* entries ends normally and yields the same names and the same payloads   *)
(* in the same order: names of 0 to MaxName characters, payloads of 0 to   *)
(* MaxData bytes, lists of 0 to MaxEntries entries.                        *)
(***************************************************************************)
C16_RoundTripOnStructure ==
    [][ReadBack =>
          /\ last'.status = "ok"
          /\ archives'[last'.fs].filenames = archives[last.fs].filenames
          /\ archives'[last'.fs].files = archives[last.fs].files
    ]_vars

\* two entries were read back: a three-character name with an empty payload
\* (both sizes already multiples of 4), then an empty name with three bytes
C16_Witness ==
    /\ last.op = "read_stream" /\ last.status = "ok"
    /\ last.ret = write_stream(archives[last.fs].filenames, archives[last.fs].files)
    /\ archives[last.fs].filenames = <<NameOf(3), NameOf(0)>>
    /\ archives[last.fs].files = <<DataOf(0), DataOf(3)>>

\* the stream is laid out as the format prescribes, for some entries
IsLaidOut(b) ==
    \E k \in 1..MaxEntries :
    \E names \in [1..k -> CodecNames], datas \in [1..k -> CodecDatas] :
        b = LaidOut(Magic, names, datas)

\* the call before was read_stream on an archive and this one wrote the archive out
WrittenAgain ==
    /\ last.op = "read_stream" /\ last.status = "ok"
    /\ last'.op = "write_stream" /\ last'.fs = last.fs

(***************************************************************************)
(* C17.  As claimed: write_stream applied to what read_stream decoded from *)
(* a buffer laid out with header size 16, record_header_size =             *)
(* align4(16 + len(name) + 1), record_total_size =                         *)
(* align4(record_header_size + payload_size) and zero padding gives the    *)
(* buffer back byte for byte.  Refuted (C18): write_stream adds four bytes *)
(* of padding where the size is a multiple of 4 already.                   *)
(***************************************************************************)
C17_RoundTripOnBytes ==
    [][WrittenAgain /\ IsLaidOut(last.ret) => last'.ret = last.ret]_vars

RECURSIVE RecordStart(_, _)
\* where the i-th record of the stream b starts, each record's total size
\* leading to the next
RecordStart(b, i) ==
    IF i = 1 THEN 16 ELSE RecordStart(b, i - 1) + ReadU32(b, RecordStart(b, i - 1) + 4)

\* the size fields of the stream b written for the entries are the aligned sizes
SizesAligned(b, names, datas) ==
    /\ ReadU32(b, 4) = Len(b)
    /\ \A i \in 1..Len(datas) :
           /\ ReadU32(b, RecordStart(b, i)) = Align4(16 + Len(names[i]) + 1)
           /\ ReadU32(b, RecordStart(b, i) + 4) =
                  Align4(ReadU32(b, RecordStart(b, i)) + Len(datas[i]))

(***************************************************************************)
(* C18.  As claimed: in what write_stream writes, every record's           *)
(* record_header_size field is align4(16 + len(name) + 1), its             *)
(* record_total_size field is align4(record_header_size + payload_size),   *)
(* and the total_size field at offset 4 is the length of the stream.       *)
(* Refuted: a size that is a multiple of 4 already is raised by 4.         *)
(***************************************************************************)
C18_EncodedSizes ==
    [][last'.op = "write_stream" =>
          SizesAligned(last'.ret, archives[last'.fs].filenames, archives[last'.fs].files)
    ]_vars

\* the four bytes at offset 8 of the stream are there and are not b"PCK2"
HasBadMagic(b) == Len(b) >= 12 /\ SubSeq(b, 9, 12) # Magic

(***************************************************************************)
(* C19.  As claimed: read_stream on a stream whose magic is not PCK2 ends  *)
(* with an error and the archive object keeps the entries it held.         *)
(* Refuted: read_stream empties the object's name and payload lists before *)
(* it looks at the magic, so the entries are gone when the error is raised.*)
(***************************************************************************)
C19_BadMagicKeepsEntries ==
    [][last'.op = "read_stream" /\ HasBadMagic(last'.ret) =>
          /\ last'.status # "ok"
          /\ archives'[last'.fs].filenames = archives[last'.fs].filenames
          /\ archives'[last'.fs].files = archives[last'.fs].files
    ]_vars

\* the folder at node n lists a file or a subfolder
HoldsSomething(n) ==
    \/ Len(filenames[n].files) > 0
    \/ \E c \in Nodes \ {Root} : ParentOf(c) = n /\ filenames[c].present

\* remove_folder was called on the folder at node n, which is in the tree
RemoveFolderCall(n) ==
    /\ last'.op = "remove_folder" /\ last'.path = PathOf(n)
    /\ filenames[n].present

(***************************************************************************)
(* C20.  remove_folder on a folder that lists a file or a subfolder ends   *)
(* with an error and the folder tree (every folder list, every firstID)    *)
(* and the slot list are what they were; on an empty folder it takes that  *)
(* folder's entry out of its parent and changes nothing else.              *)
(***************************************************************************)
C20_RemoveFolder ==
    [][\A n \in Nodes \ {Root} :
          RemoveFolderCall(n) =>
              /\ files' = files
              /\ IF HoldsSomething(n)
                 THEN last'.status = "Exception" /\ filenames' = filenames
                 ELSE /\ last'.status = "ok"
                      /\ ~filenames'[n].present
                      /\ \A m \in Nodes \ {n} : filenames'[m] = filenames[m]
    ]_vars

\* remove_folder("A") has just failed on a folder A that lists no file and
\* still has its subfolder C
C20_Witness ==
    /\ last.op = "remove_folder" /\ last.path = <<"A">> /\ last.status = "Exception"
    /\ filenames["A"].present /\ filenames["A"].files = <<>>
    /\ filenames["A/C"].present

(***************************************************************************)
(* Renaming: files of the ROM and entries of the archive loaded from B/f,  *)
(* with a handle open on either.                                           *)
(***************************************************************************)
\* files that exist from the start, one that may be added, one in no folder
RenamePaths == {<<"A", "f">>, <<"A", "g">>, <<"B", "f">>, <<"Z", "f">>}

NextRename ==
    \/ AddFile(<<"A", "g">>)
    \/ \E p \in RenamePaths, x \in Names : RenameFile(p, x)
    \/ NoneHeld /\ Open(ByPath(<<"B", "f">>), <<"r", "b">>)
    \/ \E fin \in BOOLEAN : NoneHeld /\ GetArchive(<<"B", "f">>, fin)
    \/ \E a \in ArchiveIds, x \in EntryNames : PlzAddFile(a, x)
    \/ \E a \in ArchiveIds, x \in EntryNames, y \in EntryNames : PlzRenameFile(a, x, y)
    \/ \E a \in ArchiveIds, x \in EntryNames : NoneHeld /\ PlzOpen(a, ByPath(x), <<"a", "b">>)
    \/ \E h \in HandleIds : Close(h)
    \/ \E h \in HandleIds : Del(h)

SpecRename == Init /\ [][NextRename]_vars

\* slots, handles, registries, the archive cache and every folder's firstID
\* are what they were before the call
OnlyNamesChange ==
    /\ files' = files
    /\ handles' = handles
    /\ opened_files' = opened_files
    /\ _opened_files' = _opened_files
    /\ _loaded_archives' = _loaded_archives
    /\ \A n \in Nodes : /\ filenames'[n].present = filenames[n].present
                        /\ filenames'[n].firstID = filenames[n].firstID
    /\ \A a \in ArchiveIds : /\ archives'[a].files = archives[a].files
                             /\ archives'[a].live = archives[a].live

\* the name lists of the ROM after the call: new_filename where the path's
\* name stood in folder n, every other list as before
RomNamesAfter(n, p, x) ==
    /\ filenames'[n].files = [filenames[n].files EXCEPT ![IndexOf(filenames[n].files, Last(p))] = x]
    /\ \A m \in Nodes \ {n} : filenames'[m].files = filenames[m].files
    /\ \A a \in ArchiveIds : archives'[a].filenames = archives[a].filenames

\* the same for the archive a
PlzNamesAfter(a, x, y) ==
    /\ archives'[a].filenames = [archives[a].filenames EXCEPT ![IndexOf(archives[a].filenames, x)] = y]
    /\ \A b \in ArchiveIds \ {a} : archives'[b].filenames = archives[b].filenames
    /\ \A m \in Nodes : filenames'[m].files = filenames[m].files

(***************************************************************************)
(* C21.  rename_file puts the new name where the old one stood in the name *)
(* list of the folder (of the archive) and changes nothing else: slots,    *)
(* slot count, every firstID and every handle are as before, and the new   *)
(* path resolves to the ID the old one had unless a file of that name      *)
(* stands before it in the list.  A rename of a path that does not resolve *)
(* changes nothing at all.                                                 *)
(***************************************************************************)
C21_RenameFile ==
    [][/\ \A p \in RenamePaths, x \in Names :
              RenameFile(p, x) =>
                  /\ OnlyNamesChange
                  /\ IF Resolves(filenames, p)
                     THEN LET n == subfolder(filenames, Root, Front(p))
                          IN  /\ last'.status = "ok"
                              /\ RomNamesAfter(n, p, x)
                              /\ ~Contains(filenames[n].files, x) =>
                                     idOf(filenames', Front(p) \o <<x>>) = idOf(filenames, p)
                     ELSE last'.status # "ok" /\ filenames' = filenames /\ archives' = archives
       /\ \A a \in ArchiveIds, x \in EntryNames, y \in EntryNames :
              PlzRenameFile(a, x, y) =>
                  /\ OnlyNamesChange
                  /\ IF Contains(archives[a].filenames, x)
                     THEN PlzNamesAfter(a, x, y)
                     ELSE filenames' = filenames /\ archives' = archives
    ]_vars

\* A/f, the first of the two files of folder A, has just been renamed while a
\* handle is open on the ROM
C21_Witness ==
    /\ last.op = "rename_file" /\ last.fs = Rom /\ last.status = "ok"
    /\ last.path = <<"A", "f">>
    /\ Len(filenames["A"].files) = 2 /\ filenames["A"].files[1] = "g"
    /\ \E h \in HandleIds : handles[h].st = "open"

(***************************************************************************)
(* move_file between the folders A, A/C and B, with files added and        *)
(* removed before the move.                                                *)
(***************************************************************************)
MovePaths == {<<"A", "f">>, <<"A", "g">>, <<"A", "C", "f">>, <<"B", "f">>, <<"B", "g">>}

NextMove ==
    \/ \E p \in MovePaths : AddFile(p)
    \/ \E p \in MovePaths : RemoveFile(p)
    \/ \E old \in MovePaths, new \in MovePaths : MoveFile(old, new)

SpecMove == Init /\ [][NextMove]_vars

\* the folder the path names is in the tree
FolderOf(p) == subfolder(filenames, Root, Front(p))

\* old is a file, new is not, and the folder new names exists
CanMove(old, new) ==
    /\ Resolves(filenames, old)
    /\ ~Resolves(filenames, new)
    /\ FolderOf(new) # NoFolder

\* new holds what old held, old is gone, the other paths hold what they held
Moved(old, new) ==
    /\ Resolves(filenames', new)
    /\ ContentAt(files', filenames', new) = ContentAt(files, filenames, old)
    /\ ~Resolves(filenames', old)
    /\ Len(files') = Len(files)
    /\ \A q \in MovePaths \ {old, new} :
           /\ Resolves(filenames', q) = Resolves(filenames, q)
           /\ Resolves(filenames, q) =>
                  ContentAt(files', filenames', q) = ContentAt(files, filenames, q)

(***************************************************************************)
(* C22.  As claimed: move_file(old, new), old an existing file and new a   *)
(* path that does not resolve in a folder that exists, ends normally with  *)
(* new resolving to the bytes old held, old not resolving, as many slots   *)
(* as before and every other path resolving to what it resolved to.        *)
(* Refuted for the file with ID 0 (C8): the open of old fails.             *)
(***************************************************************************)
C22_MoveFile ==
    [][\A old \in MovePaths, new \in MovePaths :
          MoveFile(old, new) /\ CanMove(old, new) =>
              last'.status = "ok" /\ Moved(old, new)
    ]_vars

(***************************************************************************)
(* FileFormat load and save of a PlzArchive: by filename through the ROM   *)
(* (get_archive, save) and on a stream the caller opened on B/f.           *)
(***************************************************************************)
\* no compression, compressed, compressed with the tag twice
Compressions == {0, 1, 2}

NextStreams ==
    \/ \E mode \in {<<"r", "b">>, <<"w", "b">>} : NoneHeld /\ Open(ByPath(<<"B", "f">>), mode)
    \/ \E h \in HandleIds, c \in Compressions, fin \in BOOLEAN : LoadFrom(h, c, fin)
    \/ \E a \in ArchiveIds, h \in HandleIds, c \in Compressions, fin \in BOOLEAN :
           SaveTo(a, h, c, fin)
    \/ \E fin \in BOOLEAN : NoneHeld /\ GetArchive(<<"B", "f">>, fin)
    \/ NoneHeld /\ Save
    \/ \E a \in ArchiveIds, x \in EntryNames : PlzRemoveFile(a, x)
    \/ \E h \in HandleIds : Close(h)
    \/ \E h \in HandleIds : Del(h)

SpecStreams == Init /\ [][NextStreams]_vars

\* the call that has just returned normally was a load from, or a save to,
\* the caller's stream h
OnCallerStream(h) ==
    /\ last'.op \in {"load", "save_to"}
    /\ last'.status = "ok"
    /\ last'.h = h

\* the call that has just returned normally opened its stream from a filename
OnOwnStream ==
    /\ last'.op \in {"get_archive", "save"}
    /\ last'.status = "ok"

\* C23: FileFormat load and FileFormat.save close the outer stream if and only
\* if they opened it: a stream passed in by the caller is still open and
\* registered when the call returns, and a stream opened from a filename is
\* closed and deregistered when the call returns (no handle is left open or
\* registered that was not so before the call).
C23_StreamOwnership ==
    [][/\ \A h \in HandleIds :
              OnCallerStream(h) =>
                  handles'[h].st = "open" /\ Contains(opened_files', h)
       /\ OnOwnStream =>
              /\ opened_files' = opened_files
              /\ \A h \in HandleIds : handles'[h].st = "open" => handles[h].st = "open"]_vars

(***************************************************************************)
(* FileFormat load by filename and save() with no arguments, on the ROM    *)
(* and on the host's files.                                                *)
(***************************************************************************)
NextBackends ==
    \/ \E fin \in BOOLEAN : GetArchive(<<"B", "f">>, fin)
    \/ \E p \in HostPaths, c \in Compressions : HostLoad(p, c)
    \/ \E a \in ArchiveIds : PlzSave(a)
    \/ \E a \in ArchiveIds, x \in EntryNames : PlzAddFile(a, x)
    \/ \E a \in ArchiveIds, x \in EntryNames : PlzRemoveFile(a, x)

SpecBackends == Init /\ [][NextBackends]_vars

\* what save writes for the archive a: the encoded entries, compressed unless
\* _last_compressed is 0
Encoded(a) ==
    Bind(write_stream(archives[a].filenames, archives[a].files), LAMBDA out :
        IF archives[a]._last_compressed = 0 THEN out
        ELSE compress(out, archives[a]._last_compressed = 2))

\* the bytes stored under the archive's _last_filename in its backend
StoredFor(a) ==
    IF archives'[a]._last_rom = None THEN host_files'[archives'[a]._last_filename]
    ELSE files'[idOf(filenames', archives'[a]._last_filename) + 1]

\* C24: FileFormat load and save behave the same on the ROM and on a plain
\* file of the host: save() with no arguments, on an archive loaded by
\* filename, returns normally and leaves under that filename, in the backend
\* the archive was loaded from, the encoded content of the archive.
C24_BackendIndependence ==
    [][\A a \in ArchiveIds :
           (PlzSave(a) /\ archives[a]._last_filename # <<>>) =>
               /\ last'.status = "ok"
               /\ StoredFor(a) = Encoded(a)]_vars

(***************************************************************************)
(* A CompressedIOWrapper over a RomFile of B/f, written through and        *)
(* around.                                                                 *)
(***************************************************************************)
NextView ==
    \/ \E mode \in {<<"r", "b">>, <<"w", "b">>, <<"a", "b">>} :
           NoneHeld /\ Open(ByPath(<<"B", "f">>), mode)
    \/ \E h \in HandleIds, double_typed \in BOOLEAN : ViewOpen(h, double_typed)
    \/ \E b \in WriteBytes : ViewWrite(b)
    \/ \E h \in HandleIds, b \in WriteBytes : Write(h, b)
    \/ ViewFlush
    \/ ViewClose
    \/ wrapper.st = "closed" /\ Becomes([State EXCEPT !.wrapper = NoWrapper])
                             /\ last' = Called("view_del", "ok", Rom, <<>>, 0, NoMode, None)
    \/ \E h \in HandleIds : Close(h)
    \/ \E h \in HandleIds : wrapper.st = "none" /\ Del(h)

SpecView == Init /\ [][NextView]_vars

\* the view is open over an open stream and flush or close has just been called on it
ViewWrittenBack ==
    /\ last'.op \in {"view_flush", "view_close"}
    /\ wrapper.st = "open"
    /\ handles[wrapper.stream].st = "open"

\* C25: on flush and on close of a CompressedIOWrapper over an open stream:
\* if the stream is writable it ends up holding exactly
\* compress(view's buffer, double_typed), nothing of its earlier bytes, and so
\* does its slot; if the stream is not writable its content and every slot
\* are unchanged.  double_typed is the flag obtained when the view was opened:
\* no call on the open view changes it.
C25_WriteBack ==
    [][/\ ViewWrittenBack =>
              LET h == wrapper.stream
                  out == compress(wrapper.buf, wrapper.double_typed)
              IN  IF handles[h].opp \in {"w", "a"}
                  THEN /\ last'.status = "ok"
                       /\ last'.op = "view_flush" => handles'[h].buf = out
                       /\ files'[handles[h].id + 1] = out
                  ELSE /\ last'.status = "ok"
                       /\ last'.op = "view_flush" => handles'[h].buf = handles[h].buf
                       /\ files' = files
       /\ (wrapper.st = "open" /\ wrapper'.st = "open") =>
              wrapper'.double_typed = wrapper.double_typed
       /\ \A h \in HandleIds, dt \in BOOLEAN :
              (ViewOpen(h, dt) /\ wrapper'.st = "open") =>
                  wrapper'.double_typed =
                      decompress(SubSeq(handles[h].buf, handles[h].pos + 1,
                                        Len(handles[h].buf)), dt).double_typed]_vars

\* a view with a double tag and a byte written through it was flushed into a
\* writable stream
C25_Witness ==
    /\ last.op = "view_flush" /\ last.status = "ok"
    /\ wrapper.st = "open" /\ wrapper.double_typed /\ wrapper.buf # <<>>
    /\ handles[wrapper.stream].opp = "w"
    /\ handles[wrapper.stream].buf = compress(wrapper.buf, TRUE)
    /\ files[handles[wrapper.stream].id + 1] = compress(wrapper.buf, TRUE)

\* the handles h and k were made by open() calls on the same file
SameFile(h, k) ==
    /\ h # k
    /\ handles[h].fs = handles[k].fs
    /\ handles[h].id = handles[k].id

\* the slot of the path A/g, the file the handles of SpecFiles are opened on
SlotOfPath == files'[idOf(filenames', <<"A", "g">>) + 1]

\* C26: handles are not deduplicated.  A second open() on a path gives a new
\* handle, registered next to the first, and leaves the first handle's buffer
\* as it is; a write through one handle changes no other handle; and when a
\* write- or append-mode handle is closed after the other handle on the same
\* path was closed, the close returns normally and the path's slot holds the
\* buffer of the handle closed last.
C26_NotDeduplicated ==
    [][\A h \in HandleIds : \A k \in HandleIds \ {h} :
        /\ (/\ last'.op = "open" /\ last'.status = "ok" /\ last'.h = h
            /\ handles[k].st = "open"
            /\ handles'[h].fs = handles[k].fs /\ handles'[h].id = handles[k].id)
           => /\ Contains(opened_files', h) /\ Contains(opened_files', k)
              /\ handles'[k] = handles[k]
        /\ (last'.op = "write" /\ last'.h = h) => handles'[k] = handles[k]
        /\ (/\ HandleCall({"close"}, h, {"w", "a"})
            /\ handles[k].st = "closed" /\ SameFile(h, k))
           => /\ last'.status = "ok"
              /\ SlotOfPath = handles[h].buf
    ]_vars

\* the ID the path p has in the filesystem fs before the call
IdOfPath(fs, p) ==
    IF fs = Rom THEN idOf(filenames, p) ELSE IndexOf(archives[fs].filenames, p) - 1

\* C27: open never duplicates an existing file.  For every path that resolves,
\* whatever its ID (0 included), open with a mode of the grammar, with or
\* without the create flag, returns an open handle bound to that ID and leaves
\* the slot count and the name lists as they were, on the ROM and on an
\* archive.
C27_OpenExisting ==
    [][/\ OpenCall
       /\ ModeGrammar(last'.mode)
       /\ ResolvesIn(last'.fs, last'.path)
       => /\ last'.status = "ok"
          /\ handles'[last'.h].st = "open"
          /\ handles'[last'.h].fs = last'.fs
          /\ handles'[last'.h].id = IdOfPath(last'.fs, last'.path)
          /\ Len(FilesAfter(last'.fs)) = Len(FsFiles(State, last'.fs))
          /\ filenames' = filenames
          /\ \A a \in ArchiveIds : archives'[a].filenames = archives[a].filenames]_vars

\* handle h is open on the ROM before the call
OpenOnRom(h) == handles[h].st = "open" /\ handles[h].fs = Rom

\* C28: NintendoDSRom.remove_file force-closes only handles opened on the
\* removed slot: after a remove_file that returned normally every handle that
\* was open on another slot is still open, its ID one less if it was above the
\* removed ID and unchanged if it was below.
C28_RemoveFileCascade ==
    [][\A p \in RomPaths :
        (RemoveFile(p) /\ last'.status = "ok") =>
            \A h \in HandleIds :
                (OpenOnRom(h) /\ handles[h].id # idOf(filenames, p)) =>
                    /\ handles'[h].st = "open"
                    /\ handles'[h].id = IF handles[h].id > idOf(filenames, p)
                                        THEN handles[h].id - 1
                                        ELSE handles[h].id
    ]_vars

\* a write- or append-mode handle is open on the slot with this ID before the call
DisplacedWriter(id) ==
    \E h \in HandleIds : OpenOnRom(h) /\ handles[h].id = id /\ handles[h].opp # "r"

\* where the slot with the 0-based ID j is after a slot was inserted at ID new_id
ShiftedBy(new_id, j) == IF j >= new_id THEN j + 1 ELSE j

\* C29: when NintendoDSRom.add_file returns, the slot it created is empty,
\* whatever handles are open (a write- or append-mode handle with bytes in its
\* buffer, open on the slot that had the new ID, included), and the content of
\* every slot is what it was before the call, except at most the slot a
\* displaced write- or append-mode handle was opened on.
C29_AddFileSlotEmpty ==
    [][\A p \in RomPaths :
        (AddFile(p) /\ last'.status = "ok") =>
            LET new_id == last'.ret
            IN  /\ Len(files') = Len(files) + 1
                /\ files'[new_id + 1] = <<>>
                /\ \A j \in 0..(Len(files) - 1) :
                       \/ j = new_id /\ DisplacedWriter(new_id)
                       \/ files'[ShiftedBy(new_id, j) + 1] = files[j + 1]
    ]_vars

\* add_file has just returned the ID of a slot on which a write- or
\* append-mode handle with bytes in its buffer is still open, and the new slot
\* is empty
C29_Witness ==
    /\ last.op = "add_file" /\ last.status = "ok"
    /\ files[last.ret + 1] = <<>>
    /\ \E h \in HandleIds :
           /\ handles[h].st = "open" /\ handles[h].fs = Rom
           /\ handles[h].opp \in {"w", "a"}
           /\ handles[h].buf # <<>>
           /\ handles[h].id = last.ret

\* fs.opened_files, for the ROM and for every PlzArchive: the attribute is
\* looked up on the instance and found on the class Archive, where every
\* filesystem finds the same list
registry_of(g, fs) == g.opened_files

\* the filesystems that exist: the ROM and the archives constructed
Filesystems(g) == {Rom} \cup {a \in ArchiveIds : g.archives[a].live}

\* the state after the step, as a record
StateAfter ==
    [files |-> files', filenames |-> filenames', archives |-> archives',
     handles |-> handles', opened_files |-> opened_files',
     _opened_files |-> _opened_files', _loaded_archives |-> _loaded_archives',
     _get_archive_call |-> _get_archive_call', host_files |-> host_files',
     wrapper |-> wrapper', reader |-> reader']

\* C30: the open-handle registry is per filesystem.  An open handle is in the
\* registry of the filesystem it was opened on and in no other filesystem's
\* registry; the list the ROM's add_file / remove_file cascade walks is the
\* registry the ROM's handles are in; and a call on one filesystem leaves the
\* id of every handle open on another filesystem as it is and that handle
\* open.
C30_RegistryPerFilesystem ==
    [][/\ \A h \in HandleIds : \A fs \in Filesystems(StateAfter) :
              handles'[h].st = "open" =>
                  (Contains(registry_of(StateAfter, fs), h) <=> fs = handles'[h].fs)
       /\ handles_walked(StateAfter) = registry_of(StateAfter, Rom)
       /\ \A h \in HandleIds :
              (handles[h].st = "open" /\ last'.fs # handles[h].fs) =>
                  /\ handles'[h].st = "open"
                  /\ handles'[h].id = handles[h].id
    ]_vars

(***************************************************************************)
(* Handles on the entries of a PlzArchive while entries are added and      *)
(* removed.                                                                *)

(***************************************************************************)
(* Handles on the entries of a PlzArchive while entries are added and      *)
(* removed.                                                                *)
(***************************************************************************)
NextEntries ==
    \/ \E fin \in BOOLEAN : NoneHeld /\ GetArchive(<<"B", "f">>, fin)
    \/ \E a \in ArchiveIds, x \in EntryNames : PlzAddFile(a, x)
    \/ \E a \in ArchiveIds, x \in EntryNames : PlzRemoveFile(a, x)
    \/ \E a \in ArchiveIds, x \in EntryNames, mode \in FileModes :
           NoneHeld /\ PlzOpen(a, ByPath(x), mode)
    \/ \E h \in HandleIds, b \in WriteBytes : Write(h, b)
    \/ \E h \in HandleIds : Flush(h)
    \/ \E h \in HandleIds : Close(h)
    \/ \E h \in HandleIds : Del(h)

SpecEntries == Init /\ [][NextEntries]_vars

\* handle h is open on an entry of the archive a before the call
OpenOnEntry(h, a) ==
    /\ handles[h].st = "open" /\ handles[h].fs = a
    /\ handles[h].id < Len(archives[a].filenames)

\* C31: archive handles stay coherent.  After PlzArchive.add_file or
\* remove_file every handle that was open on an entry of that archive is
\* closed or carries the ID the same entry has now; and a flush or close of a
\* write- or append-mode handle open on an entry returns normally, having
\* written the buffer into that entry: never into another entry, never past
\* the end of the entry list.
C31_ArchiveHandlesCoherent ==
    [][\A a \in ArchiveIds : \A h \in HandleIds :
        /\ (/\ \E x \in EntryNames : PlzAddFile(a, x) \/ PlzRemoveFile(a, x)
            /\ OpenOnEntry(h, a))
           => \/ handles'[h].st # "open"
              \/ /\ handles'[h].id < Len(archives'[a].filenames)
                 /\ archives'[a].filenames[handles'[h].id + 1] =
                        archives[a].filenames[handles[h].id + 1]
        /\ (HandleCall({"flush", "close"}, h, {"w", "a"}) /\ handles[h].fs = a)
           => /\ last'.status = "ok"
              /\ handles[h].id < Len(archives[a].files)
              /\ archives'[a].files[handles[h].id + 1] = handles[h].buf
    ]_vars

\* C32: move_file does not touch the archive cache: after move_file(old, new)
\* _loaded_archives holds the entries it held before; and a save() that
\* follows a move_file that returned normally does not make the old path
\* resolve again and does not change the number of slots.
C32_MoveKeepsCache ==
    [][/\ \A old \in RomPaths, new \in RomPaths :
              MoveFile(old, new) => _loaded_archives' = _loaded_archives
       /\ (/\ last.op = "move_file" /\ last.status = "ok"
           /\ idOf(filenames, last.path) = None
           /\ Save)
          => /\ idOf(filenames', last.path) = None
             /\ Len(files') = Len(files)
    ]_vars

(***************************************************************************)
(* The folder A/C removed and added again, with files added to and removed *)
(* from A and A/C.  B is left alone, so that A/C starts behind the file of *)
(* B only when add_folder put it there.                                    *)
(***************************************************************************)
FolderPaths == {<<"A", "f">>, <<"A", "g">>, <<"A", "C", "f">>, <<"A", "C", "g">>}

NextFolders ==
    \/ AddFolder("A/C")
    \/ RemoveFolder("A/C")
    \/ \E p \in FolderPaths : AddFile(p)
    \/ \E p \in FolderPaths : RemoveFile(p)

SpecFolders == Init /\ [][NextFolders]_vars

\* the folder node a folder path names
NodeAt(path) == CHOOSE n \in Nodes : PathOf(n) = path

\* the paths that resolve after the step resolve to different slots
DistinctIdsAfter ==
    \A p \in RomPaths, q \in RomPaths :
        (Resolves(filenames', p) /\ Resolves(filenames', q) /\ p # q) =>
            /\ idOf(filenames', p) # idOf(filenames', q)
            /\ idOf(filenames', p) < Len(files')

\* C33: add_folder(path) puts a new empty folder under its parent with
\* firstID equal to the number of slots and leaves the slots, every other
\* folder and the handles as they were; and across every later add_file and
\* remove_file, in that folder or in another, the paths that resolve resolve to
\* different slots and keep their own content: add_file inserts one empty
\* slot and every path follows its slot, remove_file deletes the removed
\* file's slot and every other path follows its slot.
C33_AddFolder ==
    [][/\ RomCall("add_folder") =>
              LET n == NodeAt(last'.path)
              IN  /\ filenames'[n] = [present |-> TRUE, firstID |-> Len(files),
                                      files |-> <<>>]
                  /\ \A m \in Nodes \ {n} : filenames'[m] = filenames[m]
                  /\ files' = files
                  /\ handles' = handles
       /\ RomCall("add_file") =>
              /\ files' = InsertAt(files, last'.ret, <<>>)
              /\ idOf(filenames', last'.path) # None
              /\ \A q \in RomPaths :
                     Resolves(filenames, q) =>
                         idOf(filenames', q) = SlotAfterAdd(idOf(filenames, q), last'.ret)
       /\ RomCall("remove_file") => RemoveFrame
       /\ DistinctIdsAfter
    ]_vars

\* a file of the folder A/C, added again behind the file of B, was removed
\* while the folder held two files: the file left in A/C comes after B/f
C33_Witness ==
    /\ last.op = "remove_file" /\ last.fs = Rom /\ last.status = "ok"
    /\ Front(last.path) = <<"A", "C">>
    /\ Len(filenames["A/C"].files) = 1
    /\ filenames["B"].files = <<"f">>
    /\ filenames["A/C"].firstID > idOf(filenames, <<"B", "f">>)

(***************************************************************************)
(* FileFormat.save of a PlzArchive in every way it can be called: into a   *)
(* stream of the caller, into a file named in the call, into the file the  *)
(* archive was loaded from; with the compression given or left to the one  *)
(* used at load.                                                           *)
(***************************************************************************)
\* compressed=None, 0, 1, 2
Overrides == Compressions \cup {None}

SavePaths == {<<"B", "f">>, <<"B", "g">>}

NextSave ==
    \/ \E fin \in BOOLEAN : NoneHeld /\ GetArchive(<<"B", "f">>, fin)
    \/ \E mode \in {<<"r", "b">>, <<"w", "b">>} :
           NoneHeld /\ Open(ByPath(<<"B", "f">>), mode)
    \/ \E h \in HandleIds, c \in Compressions, fin \in BOOLEAN : LoadFrom(h, c, fin)
    \/ \E a \in ArchiveIds, h \in HandleIds, c \in Overrides, fin \in BOOLEAN :
           SaveTo(a, h, c, fin)
    \/ \E a \in ArchiveIds, p \in SavePaths, c \in Overrides : NoneHeld /\ SaveAs(a, p, c)
    \/ \E a \in ArchiveIds : NoneHeld /\ PlzSave(a)
    \/ \E h \in HandleIds : Close(h)
    \/ \E h \in HandleIds : Del(h)

SpecSave == Init /\ [][NextSave]_vars

\* the encoded entries of the archive a under the policy the call asks for
EncodedAs(a, compressed) ==
    Bind(write_stream(archives[a].filenames, archives[a].files), LAMBDA out :
        IF effective_compression(State, a, compressed) = 0 THEN out
        ELSE compress(out, effective_compression(State, a, compressed) = 2))

\* C34: when FileFormat.save returns, the target holds the encoded bytes of
\* the format, compressed by the effective policy (the override of the call,
\* else the compression used at load): the caller's stream when a writable
\* stream was passed in, the slot of the file named in the call when a
\* filename was passed in, the file the archive was loaded from when nothing
\* was passed in; for no compression, single-typed and double-typed.
C34_SaveWritesEncoded ==
    [][\A a \in ArchiveIds :
        /\ \A h \in HandleIds, c \in Overrides, fin \in BOOLEAN :
               (SaveTo(a, h, c, fin) /\ handles[h].opp = "w" /\ last'.status = "ok") =>
                   handles'[h].buf = EncodedAs(a, c)
        /\ \A p \in SavePaths, c \in Overrides :
               (SaveAs(a, p, c) /\ last'.status = "ok") =>
                   /\ Resolves(filenames', p)
                   /\ files'[idOf(filenames', p) + 1] = EncodedAs(a, c)
        /\ (PlzSave(a) /\ last'.status = "ok") => StoredFor(a) = Encoded(a)
    ]_vars

(***************************************************************************)
(* PlzArchive.read_stream followed statement by statement: the header,     *)
(* then one pass of the while loop at a time, on streams whose magic is    *)
(* PCK2 and whose size fields hold any value.                              *)
(***************************************************************************)
\* the longest entry list a read is followed to
MaxRecords == 6

\* read_stream up to the loop: the lists are emptied, header_size and
\* archive_file_size are read, the magic is checked, the cursor goes to header_size
read_stream_header(g, a, b) ==
    Bind([g EXCEPT !.archives[a].filenames = <<>>, !.archives[a].files = <<>>], LAMBDA g1 :
        IF Len(b) < 8 THEN R(g1, "struct.error", None)
        ELSE IF ReadBytes(b, 8, 4) # Magic THEN R(g1, "AssertionError", None)
        ELSE R([g1 EXCEPT !.reader = [st |-> "loop", a |-> a, b |-> b, c |-> ReadU32(b, 0),
                                      archive_file_size |-> ReadU32(b, 4)]],
               "reading", None))

\* one pass of `while rdr.c < archive_file_size`: the test, and the body when
\* the test holds
read_stream_record(g) ==
    LET a == g.reader.a
        b == g.reader.b
        start_pos == g.reader.c
    IN  IF ~(start_pos < g.reader.archive_file_size)
        THEN R([g EXCEPT !.reader.st = "none"], "ok", None)
        ELSE IF start_pos + 16 > Len(b)
        THEN R([g EXCEPT !.reader.st = "none"], "struct.error", None)
        ELSE LET file_header_size == ReadU32(b, start_pos)
                 file_total_size == ReadU32(b, start_pos + 4)
                 file_size == ReadU32(b, start_pos + 12)
                 raw == ReadString(b, start_pos + 16)
                 file == ReadBytes(b, payload_start(start_pos, file_header_size,
                                                    start_pos + 16 + Len(raw) + 1), file_size)
             IN  R([g EXCEPT !.archives[a].filenames = Append(@, decode(raw)),
                             !.archives[a].files = Append(@, file),
                             !.reader.c = start_pos + file_total_size],
                   "reading", None)

\* a.read_stream(stream) is called on a stream holding b
ReadStreamCall(a, b) ==
    /\ archives[a].live
    /\ reader.st = "none"
    /\ \E r \in {read_stream_header(State, a, b)} :
           /\ Becomes(r.g)
           /\ last' = Called("read_stream", r.status, a, <<>>, 0, NoMode, None)

\* the call goes on by one pass of its loop
ReadStreamRecord ==
    /\ reader.st = "loop"
    /\ \E r \in {read_stream_record(State)} :
           /\ Len(r.g.archives[reader.a].files) <= MaxRecords
           /\ Becomes(r.g)
           /\ last' = Called("read_stream", r.status, reader.a, <<>>, 0, NoMode, None)

\* a record whose header is 20 bytes long (the name x) and whose payload is
\* one byte, with the two size fields given
SizedRecord(record_header_size, record_total_size) ==
    U32(record_header_size) \o U32(record_total_size) \o U32(0) \o U32(1)
    \o <<120, 0, 0, 0>> \o <<7, 0, 0, 0>>

HeaderSizes == {0, 16}

TotalSizes == {0, 40, 200}

RecordSizes == {0, 8, 24}

\* streams with the magic PCK2, one or two records, every size field free
SizedStreams ==
    {U32(hs) \o U32(ts) \o Magic \o U32(0) \o SizedRecord(20, r) :
         hs \in HeaderSizes, ts \in TotalSizes, r \in RecordSizes}
    \cup {U32(hs) \o U32(ts + 24) \o Magic \o U32(0) \o SizedRecord(20, r) \o SizedRecord(20, q) :
         hs \in HeaderSizes, ts \in TotalSizes, r \in RecordSizes, q \in RecordSizes}

NextReader ==
    \/ \E fin \in BOOLEAN : NoneHeld /\ reader.st = "none" /\ GetArchive(<<"B", "f">>, fin)
    \/ \E a \in ArchiveIds, b \in SizedStreams : ReadStreamCall(a, b)
    \/ ReadStreamRecord

SpecReader == Init /\ [][NextReader]_vars

\* the program is one thread: a call that has begun goes on
FairReader == SpecReader /\ WF_vars(ReadStreamRecord)

\* where the model stops following a read, at MaxRecords entries, the cursor
\* is on a record that declares a total size of 0: the next pass of the code
\* reads the same record again and leaves the cursor where it is
CutOnlyWhereStuck ==
    (reader.st = "loop" /\ Len(archives[reader.a].files) = MaxRecords) =>
        /\ reader.c < reader.archive_file_size
        /\ reader.c + 16 <= Len(reader.b)
        /\ ReadU32(reader.b, reader.c + 4) = 0

\* C35: read_stream terminates on every stream with a valid magic, whatever
\* its header_size, total_size and record_total_size fields hold, a
\* record_total_size of 0 or smaller than the record header included: a call
\* that is in its loop leaves it; and after each record the cursor is the
\* record's start plus the record_total_size it declares.
C35_ReadStreamTerminates ==
    /\ (reader.st = "loop") ~> (reader.st = "none")
    /\ [][(ReadStreamRecord /\ reader'.st = "loop") =>
              reader'.c = reader.c + ReadU32(reader.b, reader.c + 4)]_vars
====
